---- MODULE Spec2Model ----
(***************************************************************************)
(* A model of the mini-cluster worker: the wire protocol and connection    *)
(* handler (lib.rs), the job pipeline (job.rs), the file localizer         *)
(* (file.rs) and the relational store gateway and table loader (db.rs).    *)
(*                                                                         *)
(* Text is modelled as sequences of one-character strings so that the      *)
(* parsers of the source (prefix test, find, slicing) are computed the way *)
(* the source computes them.                                               *)
(***************************************************************************)
EXTENDS Integers, Sequences, FiniteSets, TLC

VARIABLES
    pc,       \* position of the listener task: lib.rs listen / handle_connection
    conns,    \* the TCP connections: what each peer plans, has delivered, has closed
    cur,      \* the connections whose handler has started and not yet returned
    hdr,      \* scheduler_request_metadata_buffer of read_metadata_bytes
    pbuf,     \* scheduler_request_buffer of read_protobuf_bytes
    out,      \* what print_result has written to standard output
    job,      \* the Job in flight and the position inside new / build / run
    db,       \* the SQLite database file under the cache directory
    dirs,     \* the directories that exist
    files,    \* the regular files of the cache, path -> content
    s3,       \* the objects of the storage service, <<bucket, key>> -> content
    hist,     \* the record of the last completed library call or connection
    budget    \* the remaining environment steps (bounds the exploration)

netVars == <<pc, conns, cur, hdr, pbuf, out>>
storeVars == <<db, dirs, files>>
vars == <<pc, conns, cur, hdr, pbuf, out, job, db, dirs, files, s3, hist, budget>>

----------------------------------------------------------------------------
(* Bounds of the exploration.                                              *)

MaxConns == 2        \* connections a run of the worker sees
MaxCalls == 2        \* steps of the test harness: library calls, storage changes
MaxOps == 2          \* operations of a workload drawn by the harness

----------------------------------------------------------------------------
(* Text helpers.                                                           *)

\* str::starts_with
StartsWith(s, p) == Len(s) >= Len(p) /\ SubSeq(s, 1, Len(p)) = p

\* str::find for a one-character pattern: the 0-based offset of the first
\* occurrence, or -1 for None.
Find(s, c) ==
    IF \E i \in 1..Len(s) : s[i] = c
    THEN (CHOOSE i \in 1..Len(s) : s[i] = c /\ \A j \in 1..(i - 1) : s[j] # c) - 1
    ELSE -1

\* the slice s[from..] with a 0-based start
SliceFrom(s, from) == SubSeq(s, from + 1, Len(s))

\* the slice s[..to] with a 0-based exclusive end
SliceTo(s, to) == SubSeq(s, 1, to)

Range(s) == {s[i] : i \in 1..Len(s)}

----------------------------------------------------------------------------
(* file.rs: addresses, the cache directory, the storage port.              *)

S3Prefix == <<"s", "3", ":", "/", "/">>

\* parse_file_path splitting at the last '/' instead of the first.
parse_file_path_last_slash(path) ==
    IF ~StartsWith(path, S3Prefix)
    THEN [ok |-> FALSE, bucket |-> <<>>, object |-> <<>>]
    ELSE LET rest == SliceFrom(path, 5)
             bucket_name_offset ==
                 IF \E i \in 1..Len(rest) : rest[i] = "/"
                 THEN (CHOOSE i \in 1..Len(rest) :
                          rest[i] = "/" /\ \A j \in (i + 1)..Len(rest) : rest[j] # "/") - 1
                 ELSE -1
         IN  IF bucket_name_offset = -1
             THEN [ok |-> FALSE, bucket |-> <<>>, object |-> <<>>]
             ELSE [ok |-> TRUE,
                   bucket |-> SliceTo(rest, bucket_name_offset),
                   object |-> SliceFrom(rest, bucket_name_offset + 1)]

\* parse_file_path: [ok, bucket, object]
parse_file_path(path) ==
    IF ~StartsWith(path, S3Prefix)
    THEN [ok |-> FALSE, bucket |-> <<>>, object |-> <<>>]
    ELSE LET rest == SliceFrom(path, 5)
             bucket_name_offset == Find(rest, "/")
         IN  IF bucket_name_offset = -1
             THEN [ok |-> FALSE, bucket |-> <<>>, object |-> <<>>]
             ELSE [ok |-> TRUE,
                   bucket |-> SliceTo(rest, bucket_name_offset),
                   object |-> SliceFrom(rest, bucket_name_offset + 1)]

BaseDir == <<"/tmp/mini-cluster-worker/">>
CacheDir == <<"/tmp/mini-cluster-worker/cache/">>

\* get_cache_dir
get_cache_dir == CacheDir

BucketDir(bucket) == CacheDir \o bucket

\* create_cache_dir: the directories after the call (create_dir of each
\* missing level; the parent of each level exists by then).
create_cache_dir(dd, bucket) == dd \cup {BaseDir, CacheDir, BucketDir(bucket)}

\* The directory a path lies in: the text before its last '/'.
ParentDir(p) ==
    LET last == CHOOSE i \in 0..Len(p) :
                    /\ (i = 0 \/ p[i] = "/")
                    /\ \A j \in (i + 1)..Len(p) : p[j] # "/"
    IN  SubSeq(p, 1, last - 1)

FileName(p) == SubSeq(p, Len(ParentDir(p)) + 2, Len(p))

\* fs::write succeeds when the path names a file in an existing directory.
CanWrite(dd, p) == FileName(p) # <<>> /\ ParentDir(p) \in dd /\ p \notin dd

----------------------------------------------------------------------------
(* The contents a storage object or a cached file can have: a delimited    *)
(* file as the csv reader sees it, a header record and the data records.    *)
(* A header field is a text; a cell is the text between two commas.         *)

a_INTEGER == <<"a", "_", "INTEGER">>
b_TEXT == <<"b", "_", "TEXT">>

CsvSimple == [header |-> <<a_INTEGER>>, rows |-> << <<"1">> >>]
CsvTwoRows == [header |-> <<a_INTEGER>>, rows |-> << <<"2">>, <<"3">> >>]
CsvText == [header |-> <<a_INTEGER, b_TEXT>>, rows |-> << <<"1", "hello">> >>]
CsvEmpty == [header |-> <<>>, rows |-> <<>>]

Contents == {CsvSimple, CsvTwoRows, CsvText, CsvEmpty}

\* The integer a cell denotes when it is spliced into a statement as a
\* literal; a cell outside this table is no literal (a bare word names a
\* column, an empty cell is a syntax error) and the statement fails.
IntLiteral == ("1" :> 1) @@ ("2" :> 2) @@ ("3" :> 3)

IsLiteral(cell) == cell \in DOMAIN IntLiteral

----------------------------------------------------------------------------
(* db.rs: the database file, its tables, and the statements of the store.  *)

\* A table of the store: its columns and its rows in insertion order.
NewTable(cols) == [cols |-> cols, rows |-> <<>>]

Remove(f, k) == [x \in (DOMAIN f) \ {k} |-> f[x]]
Put(f, k, v) == [x \in (DOMAIN f) \cup {k} |-> IF x = k THEN v ELSE f[x]]

\* Database::get_db_path lies in the cache directory; SQLite creates the
\* file but never a directory.
\* Database::connect: [ok, db]; db.open counts the connections that are
\* open on the store.
Database_connect(d, dd) ==
    IF ~d.file
    THEN IF get_cache_dir \in dd
         THEN [ok |-> TRUE, db |-> [d EXCEPT !.file = TRUE, !.open = @ + 1]]
         ELSE [ok |-> FALSE, db |-> d]
    ELSE [ok |-> TRUE, db |-> [d EXCEPT !.open = @ + 1]]

\* conn.close(), or the connection going out of scope when its function
\* returns
Close(d) == [d EXCEPT !.open = @ - 1]

\* The statements a workload can carry, as the store understands them:
\*   create   CREATE TABLE t (a INTEGER)
\*   insert   INSERT INTO t VALUES (v)
\*   select   SELECT * FROM t
\*   const    SELECT v
\*   droptab  DROP TABLE t
\* sqlx::query(sql) run on an open connection: [ok, tables, rows]
Sqlite_query(tables, st) ==
    LET fail == [ok |-> FALSE, tables |-> tables, rows |-> <<>>]
        has == st.t \in DOMAIN tables
    IN  CASE st.k = "create" ->
                IF has THEN fail
                ELSE [ok |-> TRUE, rows |-> <<>>,
                      tables |-> Put(tables, st.t, NewTable(<<[name |-> <<"a">>, type |-> <<"INTEGER">>]>>))]
          [] st.k = "insert" ->
                IF ~has \/ Len(tables[st.t].cols) # 1 THEN fail
                ELSE [ok |-> TRUE, rows |-> <<>>,
                      tables |-> [tables EXCEPT ![st.t].rows = Append(@, <<st.v>>)]]
          [] st.k = "select" ->
                IF ~has THEN fail
                ELSE [ok |-> TRUE, rows |-> tables[st.t].rows, tables |-> tables]
          [] st.k = "const" ->
                [ok |-> TRUE, rows |-> << <<st.v>> >>, tables |-> tables]
          [] OTHER ->
                IF ~has THEN fail
                ELSE [ok |-> TRUE, rows |-> <<>>, tables |-> Remove(tables, st.t)]

\* The columns of sqlite_master: a bare word in a WHERE clause is a column
\* reference, and the statement fails unless such a column exists.
SqliteMasterColumns == {"type", "name", "tbl_name", "rootpage", "sql"}

\* dump, lines 79-84: "... AND name={}" splices the table name in unquoted,
\* and table_exists is whether the statement ran, not whether it found a row.
table_exists(name) == name \in SqliteMasterColumns

\* dump, lines 97-112: the (name, type) pairs of the header fields; ok is
\* FALSE when a non-empty field has no '_'.
RECURSIVE HeaderColumns(_)
HeaderColumns(headers) ==
    IF headers = <<>> THEN [ok |-> TRUE, cols |-> <<>>]
    ELSE LET col == Head(headers)
             rest == HeaderColumns(Tail(headers))
             splitter_idx == Find(col, "_")
         IN  IF col = <<>> THEN rest
             ELSE IF splitter_idx = -1 THEN [ok |-> FALSE, cols |-> <<>>]
             ELSE IF ~rest.ok THEN rest
             ELSE [ok |-> TRUE,
                   cols |-> <<[name |-> SliceTo(col, splitter_idx),
                               type |-> SliceFrom(col, splitter_idx + 1)]>> \o rest.cols]

\* dump, lines 125-137: one INSERT per record, in file order, stopping at the
\* first record that fails (a record of another length than the header, a
\* cell that is no literal, a value count that is not the column count).
RECURSIVE InsertRecords(_, _, _)
InsertRecords(tbl, records, nfields) ==
    IF records = <<>> THEN [ok |-> TRUE, tbl |-> tbl]
    ELSE LET record == Head(records)
         IN  IF \/ Len(record) # nfields
                \/ \E i \in 1..Len(record) : ~IsLiteral(record[i])
                \/ Len(record) # Len(tbl.cols)
             THEN [ok |-> FALSE, tbl |-> tbl]
             ELSE InsertRecords(
                      [tbl EXCEPT !.rows = Append(@, [i \in 1..Len(record) |-> IntLiteral[record[i]]])],
                      Tail(records), nfields)

\* Table_dump with the INSERTs in one transaction: when a record fails, the
\* table is left without the rows inserted before it.
Table_dump_rows_in_transaction(d, dd, fl, name, source) ==
    IF source \notin DOMAIN fl THEN [ok |-> FALSE, db |-> d]
    ELSE LET conn == Database_connect(d, dd)
             reader == fl[source]
             parsed == HeaderColumns(reader.header)
         IN  IF ~conn.ok THEN [ok |-> FALSE, db |-> d]
             ELSE IF table_exists(name) THEN [ok |-> TRUE, db |-> Close(conn.db)]
             ELSE IF Len(reader.header) = 0 \/ ~parsed.ok THEN [ok |-> FALSE, db |-> Close(conn.db)]
             ELSE IF name \in DOMAIN conn.db.tables \/ parsed.cols = <<>>
                  THEN [ok |-> FALSE, db |-> Close(conn.db)]
             ELSE LET ins == InsertRecords(NewTable(parsed.cols), reader.rows, Len(reader.header))
                      kept == IF ins.ok THEN ins.tbl ELSE NewTable(parsed.cols)
                  IN  [ok |-> ins.ok,
                       db |-> Close([conn.db EXCEPT !.tables = Put(@, name, kept)])]

\* Table::dump: [ok, db]
Table_dump(d, dd, fl, name, source) ==
    IF source \notin DOMAIN fl THEN [ok |-> FALSE, db |-> d]
    ELSE LET conn == Database_connect(d, dd)
             reader == fl[source]
             parsed == HeaderColumns(reader.header)
         IN  IF ~conn.ok THEN [ok |-> FALSE, db |-> d]
             ELSE IF table_exists(name) THEN [ok |-> TRUE, db |-> Close(conn.db)]
             ELSE IF Len(reader.header) = 0 \/ ~parsed.ok THEN [ok |-> FALSE, db |-> Close(conn.db)]
             ELSE IF name \in DOMAIN conn.db.tables \/ parsed.cols = <<>>
                  THEN [ok |-> FALSE, db |-> Close(conn.db)]
             ELSE LET ins == InsertRecords(NewTable(parsed.cols), reader.rows, Len(reader.header))
                  IN  [ok |-> ins.ok,
                       db |-> Close([conn.db EXCEPT !.tables = Put(@, name, ins.tbl)])]

\* Table::drop: [ok, db]
Table_drop(d, dd, name) ==
    LET conn == Database_connect(d, dd)
    IN  IF ~conn.ok THEN [ok |-> FALSE, db |-> d]
        ELSE [ok |-> TRUE, db |-> Close([conn.db EXCEPT !.tables = Remove(@, name)])]

----------------------------------------------------------------------------
(* file.rs: deduplication and localization.                                *)

\* A workload is its sequence of ops; an op is
\* [statement, op_sequence_num, targets]; a target is a File [id, path].

Flatten(ops) ==
    LET RECURSIVE Fl(_)
        Fl(i) == IF i > Len(ops) THEN <<>> ELSE ops[i].targets \o Fl(i + 1)
    IN  Fl(1)

\* get_workload_files without the set of seen ids: every reference is kept.
get_workload_files_no_dedup(workload) == Flatten(workload)

\* get_workload_files keeping the last occurrence of an id instead of the
\* first.
get_workload_files_last_wins(workload) ==
    LET all == Flatten(workload)
        RECURSIVE Dedup(_)
        Dedup(i) ==
            IF i > Len(all) THEN <<>>
            ELSE IF \E k \in (i + 1)..Len(all) : all[k].id = all[i].id THEN Dedup(i + 1)
            ELSE <<all[i]>> \o Dedup(i + 1)
    IN  Dedup(1)

\* get_workload_files: every target in ops order, then targets order, kept
\* when its id has not been seen before.
get_workload_files(workload) ==
    LET all == Flatten(workload)
        RECURSIVE Dedup(_, _)
        Dedup(i, file_ids) ==
            IF i > Len(all) THEN <<>>
            ELSE IF all[i].id \in file_ids THEN Dedup(i + 1, file_ids)
            ELSE <<all[i]>> \o Dedup(i + 1, file_ids \cup {all[i].id})
    IN  Dedup(1, {})

\* localize_file with a cache hit: a file already in the cache is returned
\* as it is, without a fetch.
localize_file_cache_hit(file, dd, fl, store) ==
    LET bucket_map == parse_file_path(file.path)
        bucket == bucket_map.bucket
        object == bucket_map.object
        dd2 == create_cache_dir(dd, bucket)
        file_cache_fp == BucketDir(bucket) \o <<"/">> \o object
    IN  IF ~bucket_map.ok
        THEN [ok |-> FALSE, dirs |-> dd, files |-> fl, path |-> <<>>, fetched |-> FALSE]
        ELSE IF file_cache_fp \in DOMAIN fl
        THEN [ok |-> TRUE, dirs |-> dd2, files |-> fl, path |-> file_cache_fp, fetched |-> FALSE]
        ELSE IF <<bucket, object>> \notin DOMAIN store
        THEN [ok |-> FALSE, dirs |-> dd2, files |-> fl, path |-> <<>>, fetched |-> FALSE]
        ELSE IF ~CanWrite(dd2, file_cache_fp)
        THEN [ok |-> FALSE, dirs |-> dd2, files |-> fl, path |-> <<>>, fetched |-> TRUE]
        ELSE [ok |-> TRUE, dirs |-> dd2, path |-> file_cache_fp, fetched |-> TRUE,
              files |-> Put(fl, file_cache_fp, store[<<bucket, object>>])]

\* localize_file: [ok, dirs, files, path, fetched]
localize_file(file, dd, fl, store) ==
    LET bucket_map == parse_file_path(file.path)
        bucket == bucket_map.bucket
        object == bucket_map.object
        dd2 == create_cache_dir(dd, bucket)
        file_cache_fp == BucketDir(bucket) \o <<"/">> \o object
    IN  IF ~bucket_map.ok
        THEN [ok |-> FALSE, dirs |-> dd, files |-> fl, path |-> <<>>, fetched |-> FALSE]
        ELSE IF <<bucket, object>> \notin DOMAIN store
        THEN [ok |-> FALSE, dirs |-> dd2, files |-> fl, path |-> <<>>, fetched |-> FALSE]
        ELSE IF ~CanWrite(dd2, file_cache_fp)
        THEN [ok |-> FALSE, dirs |-> dd2, files |-> fl, path |-> <<>>, fetched |-> TRUE]
        ELSE [ok |-> TRUE, dirs |-> dd2, path |-> file_cache_fp, fetched |-> TRUE,
              files |-> Put(fl, file_cache_fp, store[<<bucket, object>>])]

\* format!("dataset_{}", file.id) of Job::build
DatasetName(id) == "dataset_" \o ToString(id)

----------------------------------------------------------------------------
(* job.rs: the Job and the steps of new, build and run.                    *)

NoJob ==
    [pc |-> "idle", fn |-> "none", w |-> <<>>, wfiles |-> <<>>, paths |-> <<>>,
     i |-> 0, ok |-> TRUE, result |-> <<>>, trace |-> <<>>, nconnect |-> 0,
     pre |-> <<>>]

\* the call Job::new(workload)
CallNew(w) == [NoJob EXCEPT !.pc = "new", !.fn = "new", !.w = w, !.pre = db.tables]

\* the call job.build(client): localize_files takes the deduplicated list
CallBuild(j) ==
    [j EXCEPT !.pc = "localize", !.fn = "build", !.i = 1, !.paths = <<>>,
              !.wfiles = get_workload_files(j.w), !.nconnect = 0, !.pre = db.tables]

\* the call job.run()
CallRun(j) ==
    [j EXCEPT !.pc = "run", !.fn = "run", !.i = 1, !.result = <<>>, !.trace = <<>>,
              !.nconnect = 0, !.pre = db.tables]

Return(j, ok) == [j EXCEPT !.pc = "ret", !.ok = ok]

\* Job_new with a store of its own for every job: the tables are cleared
\* when the Job is made.
Job_new_fresh_store ==
    /\ job.pc = "new"
    /\ LET conn == Database_connect(db, dirs)
       IN  /\ db' = IF conn.ok THEN [Close(conn.db) EXCEPT !.tables = <<>>] ELSE conn.db
           /\ job' = Return([job EXCEPT !.nconnect = @ + 1], conn.ok)
    /\ UNCHANGED <<netVars, dirs, files, s3, hist, budget>>

\* Job_new with the connection kept on the Database object of the Job
\* instead of closed.
Job_new_keeps_connection ==
    /\ job.pc = "new"
    /\ LET conn == Database_connect(db, dirs)
       IN  /\ db' = conn.db
           /\ job' = Return([job EXCEPT !.nconnect = @ + 1], conn.ok)
    /\ UNCHANGED <<netVars, dirs, files, s3, hist, budget>>

\* Job::new, Database::new: a connection is opened and closed.
Job_new ==
    /\ job.pc = "new"
    /\ LET conn == Database_connect(db, dirs)
       IN  /\ db' = IF conn.ok THEN Close(conn.db) ELSE conn.db
           /\ job' = Return([job EXCEPT !.nconnect = @ + 1], conn.ok)
    /\ UNCHANGED <<netVars, dirs, files, s3, hist, budget>>

\* Job_build_localize with every table dropped and loaded as soon as its
\* file is localized, before the files behind it are looked at.
Job_build_localize_eager_load ==
    /\ job.pc = "localize"
    /\ IF job.i > Len(job.wfiles)
       THEN /\ job' = [job EXCEPT !.pc = "drop", !.i = 1]
            /\ UNCHANGED <<dirs, files, db>>
       ELSE LET r == localize_file(job.wfiles[job.i], dirs, files, s3)
                name == DatasetName(job.wfiles[job.i].id)
            IN  /\ dirs' = r.dirs
                /\ files' = r.files
                /\ db' = IF r.ok
                         THEN Table_dump(Table_drop(db, r.dirs, name).db,
                                         r.dirs, r.files, name, r.path).db
                         ELSE db
                /\ job' = IF r.ok
                          THEN [job EXCEPT !.i = @ + 1, !.paths = Append(@, r.path)]
                          ELSE Return(job, FALSE)
    /\ UNCHANGED <<netVars, s3, hist, budget>>

\* Job_build_localize with the paths collected in completion order of a
\* stack: the last localized file's path comes first.
Job_build_localize_reversed ==
    /\ job.pc = "localize"
    /\ IF job.i > Len(job.wfiles)
       THEN /\ job' = [job EXCEPT !.pc = "drop", !.i = 1]
            /\ UNCHANGED <<dirs, files>>
       ELSE LET r == localize_file(job.wfiles[job.i], dirs, files, s3)
            IN  /\ dirs' = r.dirs
                /\ files' = r.files
                /\ job' = IF r.ok
                          THEN [job EXCEPT !.i = @ + 1, !.paths = <<r.path>> \o @]
                          ELSE Return(job, FALSE)
    /\ UNCHANGED <<netVars, db, s3, hist, budget>>

\* Job_build_localize with a failed file left out: the files that could be
\* localized are returned.
Job_build_localize_skip_failed ==
    /\ job.pc = "localize"
    /\ IF job.i > Len(job.wfiles)
       THEN /\ job' = [job EXCEPT !.pc = "drop", !.i = 1]
            /\ UNCHANGED <<dirs, files>>
       ELSE LET r == localize_file(job.wfiles[job.i], dirs, files, s3)
            IN  /\ dirs' = r.dirs
                /\ files' = r.files
                /\ job' = IF r.ok
                          THEN [job EXCEPT !.i = @ + 1, !.paths = Append(@, r.path)]
                          ELSE [job EXCEPT !.i = @ + 1]
    /\ UNCHANGED <<netVars, db, s3, hist, budget>>

\* localize_files, lines 263-273: the futures are awaited one after another
\* in list order, and the first failure is returned.
Job_build_localize ==
    /\ job.pc = "localize"
    /\ IF job.i > Len(job.wfiles)
       THEN /\ job' = [job EXCEPT !.pc = "drop", !.i = 1]
            /\ UNCHANGED <<dirs, files>>
       ELSE LET r == localize_file(job.wfiles[job.i], dirs, files, s3)
            IN  /\ dirs' = r.dirs
                /\ files' = r.files
                /\ job' = IF r.ok
                          THEN [job EXCEPT !.i = @ + 1, !.paths = Append(@, r.path)]
                          ELSE Return(job, FALSE)
    /\ UNCHANGED <<netVars, db, s3, hist, budget>>

\* Job::build, lines 29-34: table.drop() of the i-th (file, path) pair
Job_build_drop ==
    /\ job.pc = "drop"
    /\ IF job.i > Len(job.wfiles)
       THEN /\ job' = Return(job, TRUE)
            /\ UNCHANGED db
       ELSE LET r == Table_drop(db, dirs, DatasetName(job.wfiles[job.i].id))
            IN  /\ db' = r.db
                /\ job' = IF r.ok
                          THEN [job EXCEPT !.pc = "dump", !.nconnect = @ + 1]
                          ELSE Return(job, FALSE)
    /\ UNCHANGED <<netVars, dirs, files, s3, hist, budget>>

\* Job_build_dump with the pairs misaligned: every table is loaded from the
\* first path.
Job_build_dump_first_path ==
    /\ job.pc = "dump"
    /\ LET r == Table_dump(db, dirs, files, DatasetName(job.wfiles[job.i].id), job.paths[1])
       IN  /\ db' = r.db
           /\ job' = IF r.ok
                     THEN [job EXCEPT !.pc = "drop", !.i = @ + 1, !.nconnect = @ + 1]
                     ELSE Return(job, FALSE)
    /\ UNCHANGED <<netVars, dirs, files, s3, hist, budget>>

\* Job::build, line 35: table.dump() of the i-th (file, path) pair
Job_build_dump ==
    /\ job.pc = "dump"
    /\ LET r == Table_dump(db, dirs, files, DatasetName(job.wfiles[job.i].id), job.paths[job.i])
       IN  /\ db' = r.db
           /\ job' = IF r.ok
                     THEN [job EXCEPT !.pc = "drop", !.i = @ + 1, !.nconnect = @ + 1]
                     ELSE Return(job, FALSE)
    /\ UNCHANGED <<netVars, dirs, files, s3, hist, budget>>

\* Job::run, line 42: the connection is opened before the ops are looked at.
Job_run_connect ==
    /\ job.pc = "run"
    /\ LET conn == Database_connect(db, dirs)
       IN  /\ db' = conn.db
           /\ job' = IF conn.ok
                     THEN [job EXCEPT !.pc = "stmt", !.nconnect = @ + 1]
                     ELSE Return(job, FALSE)
    /\ UNCHANGED <<netVars, dirs, files, s3, hist, budget>>

\* Job_run_stmt inside a transaction: a failing statement takes the tables
\* back to what they were when run was called.
Job_run_stmt_rollback ==
    /\ job.pc = "stmt"
    /\ IF job.i > Len(job.w)
       THEN /\ job' = Return(job, TRUE)
            /\ db' = Close(db)
       ELSE LET sql == job.w[job.i].statement
                r == Sqlite_query(db.tables, sql)
                after == [db EXCEPT !.tables = r.tables]
            IN  /\ db' = IF r.ok THEN after ELSE Close([db EXCEPT !.tables = job.pre])
                /\ job' = IF ~r.ok THEN Return(job, FALSE)
                          ELSE [job EXCEPT !.i = @ + 1,
                                           !.trace = Append(@, sql),
                                           !.result = IF job.i # Len(job.w) THEN @ ELSE r.rows]
    /\ UNCHANGED <<netVars, dirs, files, s3, hist, budget>>

\* Job_run_stmt with the last index off by one: no statement's rows are
\* kept.
Job_run_stmt_off_by_one ==
    /\ job.pc = "stmt"
    /\ IF job.i > Len(job.w)
       THEN /\ job' = Return(job, TRUE)
            /\ db' = Close(db)
       ELSE LET sql == job.w[job.i].statement
                r == Sqlite_query(db.tables, sql)
                after == [db EXCEPT !.tables = r.tables]
            IN  /\ db' = IF r.ok THEN after ELSE Close(after)
                /\ job' = IF ~r.ok THEN Return(job, FALSE)
                          ELSE [job EXCEPT !.i = @ + 1,
                                           !.trace = Append(@, sql),
                                           !.result = IF job.i # Len(job.w) + 1 THEN @ ELSE r.rows]
    /\ UNCHANGED <<netVars, dirs, files, s3, hist, budget>>

\* Job::run, lines 45-54: ops[i] for i in 0..ops.len(), by position; the
\* rows are kept only for i = ops.len() - 1. (i is 1-based here.) The
\* connection of line 41 goes out of scope when run returns, Ok or Err.
Job_run_stmt ==
    /\ job.pc = "stmt"
    /\ IF job.i > Len(job.w)
       THEN /\ job' = Return(job, TRUE)
            /\ db' = Close(db)
       ELSE LET sql == job.w[job.i].statement
                r == Sqlite_query(db.tables, sql)
                after == [db EXCEPT !.tables = r.tables]
            IN  /\ db' = IF r.ok THEN after ELSE Close(after)
                /\ job' = IF ~r.ok THEN Return(job, FALSE)
                          ELSE [job EXCEPT !.i = @ + 1,
                                           !.trace = Append(@, sql),
                                           !.result = IF job.i # Len(job.w) THEN @ ELSE r.rows]
    /\ UNCHANGED <<netVars, dirs, files, s3, hist, budget>>

JobStep ==
    \/ Job_new
    \/ Job_build_localize
    \/ Job_build_drop
    \/ Job_build_dump
    \/ Job_run_connect
    \/ Job_run_stmt

----------------------------------------------------------------------------
(* The inputs the library is driven with, as the unit and integration      *)
(* tests drive it: workloads built by the fixtures, the storage objects.   *)

FileIds == {1, 2}
MaxTargets == 2      \* file references of a workload drawn by the harness

AddrK == S3Prefix \o <<"b", "/", "k">>           \* s3://b/k
AddrJ == S3Prefix \o <<"b", "/", "j">>           \* s3://b/j
AddrNoKey == S3Prefix \o <<"b">>                 \* s3://b, a bucket without key
Addrs == {AddrK, AddrJ, AddrNoKey}

KeyK == <<(<<"b">>), (<<"k">>)>>
KeyJ == <<(<<"b">>), (<<"j">>)>>
S3Keys == {KeyK, KeyJ}

Stmt(k, t, v) == [k |-> k, t |-> t, v |-> v]
Stmts ==
    {Stmt("create", "t", 0), Stmt("insert", "t", 7), Stmt("select", "t", 0),
     Stmt("const", "", 2), Stmt("droptab", "t", 0), Stmt("select", "dataset_1", 0),
     Stmt("insert", "dataset_1", 9)}

\* craft_file_message / craft_op_message / craft_workload_message
craft_file_message(id, path) == [id |-> id, path |-> path]
craft_op_message(targets, statement, op_sequence_number) ==
    [targets |-> targets, statement |-> statement, op_sequence_num |-> op_sequence_number]

SeqsUpTo(S, n) == UNION {[1..m -> S] : m \in 0..n}

\* Workloads that exercise run: any statements, the sequence numbers either
\* agreeing with the array positions or reversing them, and either no
\* target or file 1 at s3://b/k on every op (as in test_run_job).
RunWorkloads ==
    {[i \in 1..Len(st) |->
        craft_op_message(IF target THEN <<craft_file_message(1, AddrK)>> ELSE <<>>,
                         st[i], IF inorder THEN i ELSE Len(st) + 1 - i)] :
        st \in SeqsUpTo(Stmts, MaxOps), inorder \in BOOLEAN, target \in BOOLEAN}

FileRefs == {craft_file_message(id, a) : id \in FileIds, a \in Addrs}

\* Workloads that exercise build: any file references, either all on one op
\* or one op per reference.
BuildWorkloads ==
    {IF oneop
     THEN <<craft_op_message(refs, Stmt("const", "", 2), 1)>>
     ELSE [i \in 1..Len(refs) |-> craft_op_message(<<refs[i]>>, Stmt("const", "", 2), i)] :
        refs \in SeqsUpTo(FileRefs, MaxTargets), oneop \in BOOLEAN}

----------------------------------------------------------------------------
(* Between two calls of the harness an object of the storage service is    *)
(* put, replaced or deleted.                                               *)

S3Put ==
    /\ job.pc = "idle"
    /\ budget.calls > 0
    /\ \E k \in S3Keys :
          \/ \E c \in Contents : (k \in DOMAIN s3 => s3[k] # c) /\ s3' = Put(s3, k, c)
          \/ k \in DOMAIN s3 /\ s3' = Remove(s3, k)
    /\ budget' = [budget EXCEPT !.calls = @ - 1]
    /\ UNCHANGED <<netVars, job, storeVars, hist>>

----------------------------------------------------------------------------
(* The library under its tests: jobs as tests/integration_test.rs runs     *)
(* them (new, then build, then run, each asserted to succeed) and tables   *)
(* as the tests of db.rs use them.                                         *)

NoHist == [op |-> "none", ok |-> TRUE, name |-> "", pre |-> <<>>, w |-> <<>>]

InitStore ==
    /\ db = [file |-> FALSE, tables |-> <<>>, open |-> 0]
    /\ dirs \in {{}, {BaseDir, CacheDir}}
    /\ files = <<>>
    /\ s3 = (KeyK :> CsvSimple) @@ (KeyJ :> CsvTwoRows)

InitNet ==
    /\ pc = "accept"
    /\ conns = <<>>
    /\ cur = {}
    /\ hdr = <<0, 0, 0>>
    /\ pbuf = <<>>
    /\ out = <<>>

InitLib ==
    /\ InitNet
    /\ InitStore
    /\ job = NoJob
    /\ hist = NoHist
    /\ budget = [calls |-> MaxCalls, conns |-> 0]

\* integration_test.rs, lines 77-78: Job::new(workload) of test_run_job
Test_run_job ==
    /\ job.pc = "idle"
    /\ budget.calls > 0
    /\ \E w \in RunWorkloads : job' = CallNew(w)
    /\ budget' = [budget EXCEPT !.calls = @ - 1]
    /\ hist' = NoHist
    /\ UNCHANGED <<netVars, storeVars, s3>>

\* integration_test.rs, lines 46-47: Job::new(workload) of test_build_job
Test_build_job ==
    /\ job.pc = "idle"
    /\ budget.calls > 0
    /\ \E w \in BuildWorkloads : job' = CallNew(w)
    /\ budget' = [budget EXCEPT !.calls = @ - 1]
    /\ hist' = NoHist
    /\ UNCHANGED <<netVars, storeVars, s3>>

\* integration_test.rs, lines 48-50 / 79-85: the next call is made once the
\* last has returned Ok; the test ends at the first Err or after run.
Test_job_next ==
    /\ job.pc = "ret"
    /\ job' = IF job.ok /\ job.fn = "new" THEN CallBuild(job)
              ELSE IF job.ok /\ job.fn = "build" THEN CallRun(job)
              ELSE NoJob
    /\ UNCHANGED <<netVars, storeVars, s3, hist, budget>>

TableNames == {"foo", "dataset_1", "name"}

\* A header whose second field has no '_'.
CsvNoType == [header |-> <<a_INTEGER, <<"b">>>>, rows |-> << <<"1", "2">> >>]

\* A file whose second data record is a bare word, between two records that
\* are integer literals.
CsvBadRow == [header |-> <<a_INTEGER>>, rows |-> << <<"1">>, <<"hello">>, <<"2">> >>]

\* The delimited files of the test artifacts, which lie outside the cache.
Artifacts ==
    (<<"tests/artifacts/", "simple-csv.csv">> :> CsvSimple)
        @@ (<<"tests/artifacts/", "text-csv.csv">> :> CsvText)
        @@ (<<"tests/artifacts/", "empty.csv">> :> CsvEmpty)
        @@ (<<"tests/artifacts/", "no-type.csv">> :> CsvNoType)
        @@ (<<"tests/artifacts/", "bad-row.csv">> :> CsvBadRow)

\* The files a Table's source can name: the cache and the artifacts.
LocalFiles == files @@ Artifacts

\* db.rs, lines 209-213: t.dump() on a table of the tests
Test_table_dump ==
    /\ job.pc = "idle"
    /\ budget.calls > 0
    /\ \E name \in TableNames, source \in DOMAIN LocalFiles :
          LET r == Table_dump(db, dirs, LocalFiles, name, source)
          IN  /\ db' = r.db
              /\ hist' = [NoHist EXCEPT !.op = "dump", !.ok = r.ok, !.name = name,
                                        !.pre = db.tables, !.w = source]
    /\ budget' = [budget EXCEPT !.calls = @ - 1]
    /\ UNCHANGED <<netVars, job, dirs, files, s3>>

\* db.rs, lines 209 / 228: t.drop()
Test_table_drop ==
    /\ job.pc = "idle"
    /\ budget.calls > 0
    /\ \E name \in TableNames :
          LET r == Table_drop(db, dirs, name)
          IN  /\ db' = r.db
              /\ hist' = [NoHist EXCEPT !.op = "drop", !.ok = r.ok, !.name = name,
                                        !.pre = db.tables]
    /\ budget' = [budget EXCEPT !.calls = @ - 1]
    /\ UNCHANGED <<netVars, job, dirs, files, s3>>

NextRun ==
    \/ Test_run_job
    \/ Test_job_next
    \/ JobStep

SpecRun == InitLib /\ [][NextRun]_vars

NextBuild ==
    \/ Test_build_job
    \/ Test_job_next
    \/ Test_table_dump
    \/ Test_table_drop
    \/ JobStep
    \/ S3Put

SpecBuild == InitLib /\ [][NextBuild]_vars

----------------------------------------------------------------------------
(* The wire: what a peer can plan to send on a connection.                 *)

\* The workloads the scheduler sends over the wire.
WireSelect == <<craft_op_message(<<craft_file_message(1, AddrK)>>, Stmt("select", "dataset_1", 0), 1)>>
WireBadAddress == <<craft_op_message(<<craft_file_message(1, AddrNoKey)>>, Stmt("const", "", 2), 1)>>
WireRunError == <<craft_op_message(<<>>, Stmt("select", "t", 0), 1)>>
\* fixtures.rs, lines 78-89: a workload whose message is longer than 255
\* bytes (291 in test_workload_buffer_nondefault_size)
WireLong == <<craft_op_message(<<craft_file_message(2, AddrJ)>>, Stmt("const", "t", 1), 1)>>
LongSize == 291

\* Workload::write_to_bytes, abridged: an empty message is zero bytes, any
\* other starts with the tag of field 1 (0x0A); each workload of the wire
\* stands for its three bytes.
write_to_bytes(w) ==
    CASE w = <<>> -> <<>>
      [] w = WireSelect -> <<10, 1, 1>>
      [] w = WireBadAddress -> <<10, 1, 2>>
      [] w = WireRunError -> <<10, 1, 3>>
      [] w = WireLong -> [i \in 1..LongSize |-> IF i = 1 THEN 10 ELSE IF i = 2 THEN 1 ELSE 4]

WireWorkloads == {<<>>, WireSelect, WireBadAddress, WireRunError}

\* the workloads that have an encoding here
Encodable == WireWorkloads \cup {WireLong}

\* Workload::parse_from_bytes: [ok, w]; bytes that are no message fail.
parse_from_bytes(bytes) ==
    IF \E w \in Encodable : write_to_bytes(w) = bytes
    THEN [ok |-> TRUE, w |-> CHOOSE w \in Encodable : write_to_bytes(w) = bytes]
    ELSE [ok |-> FALSE, w |-> <<>>]

\* craft_workload_buffer: signal 1, the size as two bytes, the message
craft_workload_buffer(workload) ==
    LET workload_bytes == write_to_bytes(workload)
        workload_bytesize == Len(workload_bytes)
    IN  <<1, (workload_bytesize \div 256) % 256, workload_bytesize % 256>> \o workload_bytes

PingFrame == <<0, 0, 0>>
ShutdownFrame == <<2, 0, 0>>
\* signal 3 with a declared payload of one byte
UnknownSignalFrame == <<3, 0, 1, 9>>
GarbageWorkFrame == <<1, 0, 3, 10, 1, 9>>

Plans ==
    {PingFrame, ShutdownFrame, UnknownSignalFrame, GarbageWorkFrame}
        \cup {craft_workload_buffer(w) : w \in WireWorkloads}

NewConn(plan) ==
    [st |-> "pending", plan |-> plan, sent |-> 0, rd |-> 0, closed |-> FALSE,
     res |-> "none", fail |-> "none", got |-> <<>>, payload |-> <<>>,
     jobs |-> 0, touched |-> FALSE, wr |-> 0]

\* A connection whose handler returned earlier: the socket is dropped and
\* nothing of it is looked at again.
Forgotten == [NewConn(<<>>) EXCEPT !.st = "done", !.closed = TRUE]

\* A peer connects; the connection waits in the listener's backlog. (One
\* connection waits at a time: a second waiting peer adds no behaviour of
\* the handler.)
PeerConnect ==
    /\ pc # "dead"
    /\ budget.conns > 0
    /\ \A c \in DOMAIN conns : conns[c].st # "pending"
    /\ \E plan \in Plans : conns' = Append(conns, NewConn(plan))
    /\ budget' = [budget EXCEPT !.conns = @ - 1]
    /\ UNCHANGED <<pc, cur, hdr, pbuf, out, job, storeVars, s3, hist>>

\* The next k bytes of a peer's plan arrive in the socket's receive buffer.
PeerSend ==
    /\ pc # "dead"
    /\ \E c \in DOMAIN conns :
          /\ conns[c].st # "done"
          /\ ~conns[c].closed
          /\ \E k \in 1..(Len(conns[c].plan) - conns[c].sent) :
                conns' = [conns EXCEPT ![c].sent = @ + k]
    /\ UNCHANGED <<pc, cur, hdr, pbuf, out, job, storeVars, s3, hist, budget>>

\* A peer closes its end, whether or not it has sent all it planned.
PeerClose ==
    /\ pc # "dead"
    /\ \E c \in DOMAIN conns :
          /\ conns[c].st # "done"
          /\ ~conns[c].closed
          /\ conns' = [conns EXCEPT ![c].closed = TRUE]
    /\ UNCHANGED <<pc, cur, hdr, pbuf, out, job, storeVars, s3, hist, budget>>

----------------------------------------------------------------------------
(* lib.rs: the listener and the connection handler.                        *)

Min(a, b) == IF a < b THEN a ELSE b

TheConn == CHOOSE c \in cur : TRUE
Avail(c) == conns[c].sent - conns[c].rd

\* try_read(buf): the first rsize bytes of buf are overwritten
Overwrite(buf, bytes) ==
    [i \in 1..Len(buf) |-> IF i <= Len(bytes) THEN bytes[i] ELSE buf[i]]

\* Finish with the connection kept after a frame that was handled: while
\* unread bytes remain, the handler reads the next header from it.
Finish_next_frame(cs, c, res, fail) ==
    IF res = "ok" /\ cs[c].got # <<>> /\ cs[c].sent > cs[c].rd
    THEN /\ conns' = cs
         /\ cur' = cur
         /\ pc' = "hdr"
    ELSE /\ conns' = [cs EXCEPT ![c].st = "done", ![c].res = res, ![c].fail = fail,
                                ![c].touched = (<<db, dirs, files>> # hist.store)]
         /\ cur' = cur \ {c}
         /\ pc' = IF res = "ok" THEN "accept" ELSE "dead"

\* Finish with a panic scoped to the connection: the listener goes back to
\* accept after an unknown signal.
Finish_panic_scoped(cs, c, res, fail) ==
    /\ conns' = [cs EXCEPT ![c].st = "done", ![c].res = res, ![c].fail = fail,
                           ![c].touched = (<<db, dirs, files>> # hist.store)]
    /\ cur' = cur \ {c}
    /\ pc' = IF res \in {"ok", "panic"} THEN "accept" ELSE "dead"

\* The connection's handler returns: Ok(()) goes back to accept; an Err
\* leaves listen through `?` and main's unwrap ends the process, as a panic
\* does.
Finish(cs, c, res, fail) ==
    /\ conns' = [cs EXCEPT ![c].st = "done", ![c].res = res, ![c].fail = fail,
                           ![c].touched = (<<db, dirs, files>> # hist.store)]
    /\ cur' = cur \ {c}
    /\ pc' = IF res = "ok" THEN "accept" ELSE "dead"

\* Accept with the handler spawned instead of awaited: the listener accepts
\* while a connection is still being handled.
Accept_while_handling ==
    /\ pc # "dead"
    /\ \E c \in DOMAIN conns :
          /\ conns[c].st = "pending"
          /\ \A b \in 1..(c - 1) : conns[b].st # "pending"
          /\ conns' = [conns EXCEPT ![c].st = "handling"]
          /\ cur' = cur \cup {c}
    /\ pc' = "hdr"
    /\ hdr' = <<0, 0, 0>>
    /\ hist' = [NoHist EXCEPT !.op = "accept"] @@ [store |-> <<db, dirs, files>>]
    /\ UNCHANGED <<pbuf, out, job, storeVars, s3, budget>>

\* listen, line 40: accept the oldest waiting connection and enter
\* handle_connection / read_metadata_bytes.
Accept ==
    /\ pc = "accept"
    /\ \E c \in DOMAIN conns :
          /\ conns[c].st = "pending"
          /\ \A b \in 1..(c - 1) : conns[b].st # "pending"
          /\ conns' = [b \in DOMAIN conns |->
                          IF b = c THEN [conns[b] EXCEPT !.st = "handling"]
                          ELSE IF conns[b].st = "done" THEN Forgotten
                          ELSE conns[b]]
          /\ cur' = cur \cup {c}
    /\ pc' = "hdr"
    /\ hdr' = <<0, 0, 0>>
    /\ hist' = [NoHist EXCEPT !.op = "accept"] @@ [store |-> <<db, dirs, files>>]
    /\ UNCHANGED <<pbuf, out, job, storeVars, s3, budget>>

\* Read_metadata with SHUTDOWN honoured: the handler returns an error that
\* ends the listener.
Read_metadata_shutdown_stops ==
    /\ pc = "hdr"
    /\ LET c == TheConn
           total_bytes_received == 0
           rsize == Min(3, Avail(c))
           bytes == SubSeq(conns[c].plan, conns[c].rd + 1, conns[c].rd + rsize)
           buf == Overwrite(hdr, bytes)
           cs == [conns EXCEPT ![c].rd = @ + rsize]
       IN  /\ Avail(c) > 0 \/ conns[c].closed
           /\ hdr' = buf
           /\ IF rsize = 0
              THEN Finish(cs, c, "ok", "none") /\ UNCHANGED pbuf
              ELSE IF total_bytes_received + rsize # 3
              THEN conns' = cs /\ UNCHANGED <<pc, cur, pbuf>>
              ELSE LET got == [cs EXCEPT ![c].got = buf]
                   IN  CASE buf[1] = 0 -> Finish(got, c, "ok", "none") /\ UNCHANGED pbuf
                         [] buf[1] = 1 ->
                              /\ conns' = got
                              /\ pbuf' = [i \in 1..(256 * buf[2] + buf[3]) |-> 0]
                              /\ pc' = "payload"
                              /\ UNCHANGED cur
                         [] buf[1] = 2 -> Finish(got, c, "err", "shutdown") /\ UNCHANGED pbuf
                         [] OTHER -> Finish(got, c, "panic", "signal") /\ UNCHANGED pbuf
    /\ UNCHANGED <<out, job, storeVars, s3, hist, budget>>

\* read_metadata_bytes, one turn of the loop, and the dispatch on the
\* signal byte of handle_connection when the header is returned.
Read_metadata ==
    /\ pc = "hdr"
    /\ LET c == TheConn
           total_bytes_received == 0
           rsize == Min(3, Avail(c))
           bytes == SubSeq(conns[c].plan, conns[c].rd + 1, conns[c].rd + rsize)
           buf == Overwrite(hdr, bytes)
           cs == [conns EXCEPT ![c].rd = @ + rsize]
       IN  /\ Avail(c) > 0 \/ conns[c].closed
           /\ hdr' = buf
           /\ IF rsize = 0
              THEN Finish(cs, c, "ok", "none") /\ UNCHANGED pbuf
              ELSE IF total_bytes_received + rsize # 3
              THEN conns' = cs /\ UNCHANGED <<pc, cur, pbuf>>
              ELSE LET got == [cs EXCEPT ![c].got = buf]
                   IN  CASE buf[1] = 0 -> Finish(got, c, "ok", "none") /\ UNCHANGED pbuf
                         [] buf[1] = 1 ->
                              /\ conns' = got
                              /\ pbuf' = [i \in 1..(256 * buf[2] + buf[3]) |-> 0]
                              /\ pc' = "payload"
                              /\ UNCHANGED cur
                         [] buf[1] = 2 -> Finish(got, c, "ok", "none") /\ UNCHANGED pbuf
                         [] OTHER -> Finish(got, c, "panic", "signal") /\ UNCHANGED pbuf
    /\ UNCHANGED <<out, job, storeVars, s3, hist, budget>>

\* read_protobuf_bytes, one turn of the loop, then parse_from_bytes and
\* Job::new of handle_connection when the buffer is returned. A read into a
\* buffer of length 0 returns 0.
Read_protobuf ==
    /\ pc = "payload"
    /\ LET c == TheConn
           buffer_length == Len(pbuf)
           total_bytes_received == 0
           rsize == Min(buffer_length, Avail(c))
           bytes == SubSeq(conns[c].plan, conns[c].rd + 1, conns[c].rd + rsize)
           buf == Overwrite(pbuf, bytes)
           cs == [conns EXCEPT ![c].rd = @ + rsize]
           workload == parse_from_bytes(buf)
       IN  /\ Avail(c) > 0 \/ conns[c].closed \/ buffer_length = 0
           /\ pbuf' = buf
           /\ IF rsize = 0
              THEN Finish(cs, c, "ok", "none") /\ UNCHANGED job
              ELSE IF total_bytes_received + rsize # buffer_length
              THEN conns' = cs /\ UNCHANGED <<pc, cur, job>>
              ELSE IF ~workload.ok
              THEN Finish([cs EXCEPT ![c].payload = buf], c, "err", "decode") /\ UNCHANGED job
              ELSE /\ conns' = [cs EXCEPT ![c].payload = buf, ![c].jobs = @ + 1]
                   /\ job' = CallNew(workload.w)
                   /\ pc' = "job"
                   /\ UNCHANGED cur
    /\ UNCHANGED <<hdr, out, storeVars, s3, hist, budget>>

\* readable() may return although nothing can be read; try_read then fails
\* with WouldBlock, which `?` returns as the handler's error.
Read_would_block ==
    /\ pc \in {"hdr", "payload"}
    /\ LET c == TheConn
       IN  /\ Avail(c) = 0 /\ ~conns[c].closed
           /\ pc = "payload" => Len(pbuf) > 0
           /\ Finish(conns, c, "err", "read")
    /\ UNCHANGED <<hdr, pbuf, out, job, storeVars, s3, hist, budget>>

\* Handle_job with a reply: the rows of a job that succeeded are also written
\* to the peer's socket.
Handle_job_replies ==
    /\ pc = "job"
    /\ job.pc = "ret"
    /\ LET c == TheConn
       IN  IF ~job.ok
           THEN /\ Finish(conns, c, "err", job.fn)
                /\ job' = NoJob
                /\ UNCHANGED out
           ELSE IF job.fn = "new"
           THEN job' = CallBuild(job) /\ UNCHANGED <<pc, conns, cur, out>>
           ELSE IF job.fn = "build"
           THEN job' = CallRun(job) /\ UNCHANGED <<pc, conns, cur, out>>
           ELSE /\ out' = Append(out, job.result)
                /\ Finish([conns EXCEPT ![c].wr = @ + Len(job.result)], c, "ok", "none")
                /\ job' = NoJob
    /\ UNCHANGED <<hdr, pbuf, storeVars, s3, hist, budget>>

\* Handle_job with the result of build ignored: run is called after a build
\* that failed.
Handle_job_run_after_failed_build ==
    /\ pc = "job"
    /\ job.pc = "ret"
    /\ LET c == TheConn
       IN  IF ~job.ok /\ job.fn # "build"
           THEN /\ Finish(conns, c, "err", job.fn)
                /\ job' = NoJob
                /\ UNCHANGED out
           ELSE IF job.fn = "new"
           THEN job' = CallBuild(job) /\ UNCHANGED <<pc, conns, cur, out>>
           ELSE IF job.fn = "build"
           THEN job' = CallRun(job) /\ UNCHANGED <<pc, conns, cur, out>>
           ELSE /\ out' = Append(out, job.result)
                /\ Finish(conns, c, "ok", "none")
                /\ job' = NoJob
    /\ UNCHANGED <<hdr, pbuf, storeVars, s3, hist, budget>>

\* handle_connection, lines 236-241: Job::new, build, run, print_result,
\* each left through `?` on an error.
Handle_job ==
    /\ pc = "job"
    /\ job.pc = "ret"
    /\ LET c == TheConn
       IN  IF ~job.ok
           THEN /\ Finish(conns, c, "err", job.fn)
                /\ job' = NoJob
                /\ UNCHANGED out
           ELSE IF job.fn = "new"
           THEN job' = CallBuild(job) /\ UNCHANGED <<pc, conns, cur, out>>
           ELSE IF job.fn = "build"
           THEN job' = CallRun(job) /\ UNCHANGED <<pc, conns, cur, out>>
           ELSE /\ out' = Append(out, job.result)
                /\ Finish(conns, c, "ok", "none")
                /\ job' = NoJob
    /\ UNCHANGED <<hdr, pbuf, storeVars, s3, hist, budget>>

\* The worker starts on a machine whose cache directory exists or not, and
\* against a storage service that holds the object b/k, a loadable file.
Init ==
    /\ InitNet
    /\ db = [file |-> FALSE, tables |-> <<>>, open |-> 0]
    /\ dirs \in {{}, {BaseDir, CacheDir}}
    /\ files = <<>>
    /\ s3 = (KeyK :> CsvSimple)
    /\ job = NoJob
    /\ hist = NoHist @@ [store |-> <<db, dirs, files>>]
    /\ budget = [calls |-> 0, conns |-> MaxConns]

Next ==
    \/ PeerConnect
    \/ PeerSend
    \/ PeerClose
    \/ Accept
    \/ Read_metadata
    \/ Read_protobuf
    \/ Read_would_block
    \/ Handle_job
    \/ JobStep

Spec == Init /\ [][Next]_vars

----------------------------------------------------------------------------
(* What the claims about Job::run and Job::build are stated with.          *)

Statements(w) == [i \in 1..Len(w) |-> w[i].statement]

\* The statements of a workload in ascending order of op_sequence_num.
StatementsBySequenceNumber(w) ==
    LET rank(i) == Cardinality({j \in 1..Len(w) :
                        w[j].op_sequence_num < w[i].op_sequence_num}) + 1
    IN  [k \in 1..Len(w) |-> w[CHOOSE i \in 1..Len(w) : rank(i) = k].statement]

\* The tables after the first k statements, each run on what the earlier
\* ones left.
RECURSIVE TablesAfter(_, _, _)
TablesAfter(t0, sts, k) ==
    IF k = 0 THEN t0 ELSE Sqlite_query(TablesAfter(t0, sts, k - 1), sts[k]).tables

AllSucceed(t0, sts) ==
    \A k \in 1..Len(sts) : Sqlite_query(TablesAfter(t0, sts, k - 1), sts[k]).ok

RunReturned == job.pc = "ret" /\ job.fn = "run"
BuildReturned == job.pc = "ret" /\ job.fn = "build"

\* C6: run executes the statements in sequence-number order, not in array
\* order.
C6_RunInSequenceNumberOrder ==
    (RunReturned /\ job.ok) => job.trace = StatementsBySequenceNumber(job.w)

\* C7: when all n >= 1 statements succeed, run executes all of them in
\* order, each on the tables the earlier ones left, and returns exactly the
\* rows of the last statement.
C7_RunReturnsLastRows ==
    LET sts == Statements(job.w)
        n == Len(sts)
    IN  (RunReturned /\ n >= 1 /\ AllSucceed(job.pre, sts)) =>
            /\ job.ok
            /\ job.trace = sts
            /\ db.tables = TablesAfter(job.pre, sts, n)
            /\ job.result = Sqlite_query(TablesAfter(job.pre, sts, n - 1), sts[n]).rows

\* C7 witness: a two-statement run whose first statement produces a row of
\* its own and whose second sees the table as the first left it.
C7_Witness ==
    /\ RunReturned /\ job.ok /\ Len(job.w) = 2
    /\ job.w[1].statement = Stmt("insert", "t", 7)
    /\ job.w[2].statement = Stmt("select", "t", 0)
    /\ Len(job.result) = Len(job.pre["t"].rows) + 1

\* C8: with zero operations run returns an empty result set and opens no
\* store connection.
C8_EmptyRunTouchesNoStore ==
    (RunReturned /\ job.w = <<>>) => (job.ok /\ job.result = <<>> /\ job.nconnect = 0)

\* The data rows of a delimited file as rows of values.
DataRows(content) ==
    [r \in 1..Len(content.rows) |->
        [c \in 1..Len(content.rows[r]) |-> IntLiteral[content.rows[r][c]]]]

\* C9: after a successful build every distinct file identifier of the
\* workload has its table dataset_<id>, holding exactly the data rows of the
\* file localized for it, whatever the table held before.
C9_BuildLoadsFresh ==
    (BuildReturned /\ job.ok) =>
        \A f \in Range(Flatten(job.w)) :
            \E i \in 1..Len(job.paths) :
                /\ job.wfiles[i].id = f.id
                /\ job.paths[i] \in DOMAIN files
                /\ DatasetName(f.id) \in DOMAIN db.tables
                /\ db.tables[DatasetName(f.id)].rows = DataRows(files[job.paths[i]])

\* C9 witness: a successful build over two files where dataset_1 existed
\* before with other rows.
C9_Witness ==
    /\ BuildReturned /\ job.ok /\ Len(job.wfiles) = 2
    /\ "dataset_1" \in DOMAIN job.pre
    /\ job.pre["dataset_1"].rows # db.tables["dataset_1"].rows

\* C10: dump of a table that already exists succeeds and changes nothing.
C10_DumpIdempotent ==
    (hist.op = "dump" /\ hist.name \in DOMAIN hist.pre) =>
        (hist.ok /\ db.tables = hist.pre)

----------------------------------------------------------------------------
(* What the claims about the connection handler are stated with.           *)

\* The payload length a connection's first three planned bytes declare.
Declared(c) == 256 * conns[c].plan[2] + conns[c].plan[3]

\* The handler of connection c has returned (or panicked).
Returned(c) == conns[c].res # "none"

\* The peer closed before 3 header bytes, or after a WORK header and before
\* the declared number of payload bytes.
ShortClose(c) ==
    /\ conns[c].closed
    /\ \/ conns[c].sent < 3
       \/ /\ conns[c].plan[1] = 1
          /\ conns[c].sent - 3 < Declared(c)

\* C1: a short close makes handle_connection return success without a Job
\* and without a change to the cache or the store.
C1_ShortCloseIsCleanEnd ==
    \A c \in DOMAIN conns :
        (Returned(c) /\ ShortClose(c)) =>
            (conns[c].res = "ok" /\ conns[c].jobs = 0 /\ ~conns[c].touched)

\* C2: once the reads of the header have received 3 bytes in total, however
\* they were split, the header returned is the 3 bytes in the order sent.
C2_HeaderPartialReads ==
    \A c \in DOMAIN conns :
        conns[c].rd >= 3 => conns[c].got = SubSeq(conns[c].plan, 1, 3)

\* C3: after a WORK header declaring n > 0, once the reads of the payload
\* have received n bytes in total, however they were split, the workload is
\* decoded from exactly those n bytes and a Job is made of it.
C3_PayloadPartialReads ==
    \A c \in DOMAIN conns :
        (/\ conns[c].rd > 3
         /\ conns[c].got = SubSeq(conns[c].plan, 1, 3)
         /\ conns[c].got[1] = 1
         /\ Declared(c) > 0
         /\ conns[c].rd >= 3 + Declared(c)) =>
            /\ conns[c].payload = SubSeq(conns[c].plan, 4, 3 + Declared(c))
            /\ parse_from_bytes(conns[c].payload).ok => conns[c].jobs = 1

\* C4: after a connection whose job failed in decode, build or run the
\* worker process is still running.
C4_WorkerSurvivesFailedJob ==
    \A c \in DOMAIN conns :
        conns[c].fail \in {"decode", "new", "build", "run"} => pc # "dead"

\* C5: at most one connection is being handled, a job is in build or run
\* only inside the handling of that connection, and the listener is in
\* accept only when no connection is being handled and no job is in flight.
C5_OneConnectionAtATime ==
    /\ Cardinality(cur) <= 1
    /\ cur = {c \in DOMAIN conns : conns[c].st = "handling"}
    /\ pc = "accept" => (cur = {} /\ job.pc = "idle")
    /\ job.pc # "idle" => (Cardinality(cur) = 1 /\ pc = "job")

\* C5 witness: a second connection waits with its bytes delivered while the
\* job of the first is executing its statements.
C5_Witness ==
    /\ job.pc = "stmt"
    /\ \E c \in DOMAIN conns : conns[c].st = "pending" /\ conns[c].sent > 0

----------------------------------------------------------------------------
(* What the claims about Table::dump are stated with.                      *)

\* The content of the source of the last dump.
DumpedSource == LocalFiles[hist.w]

\* The store could be connected to by the last call (a successful connect
\* leaves the database file behind).
StoreReachable == db.file \/ get_cache_dir \in dirs

\* Every header field is name_type and every record has the header's length.
WellFormedSource(content) ==
    /\ content.header # <<>>
    /\ \A i \in 1..Len(content.header) :
          content.header[i] # <<>> /\ Find(content.header[i], "_") # -1
    /\ \A r \in 1..Len(content.rows) : Len(content.rows[r]) = Len(content.header)

\* The columns a header declares: the text before and after the first '_'.
ExpectedColumns(header) ==
    [i \in 1..Len(header) |->
        [name |-> SliceTo(header[i], Find(header[i], "_")),
         type |-> SliceFrom(header[i], Find(header[i], "_") + 1)]]

\* The value a cell holds in the table: the integer it denotes, or its text.
CellValue(cell) == IF IsLiteral(cell) THEN IntLiteral[cell] ELSE cell

ExpectedRows(content) ==
    [r \in 1..Len(content.rows) |->
        [c \in 1..Len(content.rows[r]) |-> CellValue(content.rows[r][c])]]

\* C11: dump of a well-formed source into a table that does not exist
\* creates the table with the header's columns and one row per data record,
\* holding the record's values positionally, integer and text cells alike.
C11_DumpCreatesTable ==
    (/\ hist.op = "dump"
     /\ StoreReachable
     /\ hist.name \notin DOMAIN hist.pre
     /\ hist.name \notin SqliteMasterColumns
     /\ WellFormedSource(DumpedSource)) =>
        /\ hist.ok
        /\ hist.name \in DOMAIN db.tables
        /\ db.tables[hist.name].cols = ExpectedColumns(DumpedSource.header)
        /\ db.tables[hist.name].rows = ExpectedRows(DumpedSource)

\* A header that is empty or has a field without '_'.
MalformedHeader(content) ==
    \/ content.header = <<>>
    \/ \E i \in 1..Len(content.header) :
          content.header[i] # <<>> /\ Find(content.header[i], "_") = -1

\* C12: dump of a source without header, or with a header field that has no
\* '_', fails, and no table of that name exists afterwards when none existed
\* before.
C12_DumpRejectsMalformedHeader ==
    (/\ hist.op = "dump"
     /\ hist.name \notin DOMAIN hist.pre
     /\ MalformedHeader(DumpedSource)) =>
        (~hist.ok /\ hist.name \notin DOMAIN db.tables)

----------------------------------------------------------------------------
(* file.rs under its unit tests: parse_file_path on addresses of every     *)
(* shape, localize_file on a cache directory in any state.                 *)

MaxFileCalls == 3    \* steps of the test of localize_file: calls, storage changes
MaxPathLen == 3      \* characters of an address after its prefix

AddrDeep == S3Prefix \o <<"b", "/", "d", "/", "k">>    \* s3://b/d/k
AddrNotS3 == <<"n", "o", "t", "_", "s", "3", "!">>      \* not_s3!
KeyDeep == <<(<<"b">>), (<<"d", "/", "k">>)>>

\* The files test_localize_file is run on.
FileInputs ==
    {craft_file_message(1, a) : a \in {AddrK, AddrJ, AddrDeep, AddrNoKey, AddrNotS3}}

\* The addresses test_parse_file_path is run on: a prefix that is the scheme,
\* falls one character short of it, is another scheme or is missing, then
\* any text of bucket characters, key characters and '/'.
PathInputs ==
    {prefix \o rest :
        prefix \in {S3Prefix, <<"s", "3", ":", "/">>, <<"h", "t", "t", "p", ":", "/", "/">>, <<>>},
        rest \in SeqsUpTo({"b", "k", "/"}, MaxPathLen)}

InitFile ==
    /\ InitNet
    /\ db = [file |-> FALSE, tables |-> <<>>, open |-> 0]
    /\ dirs \in {{}, {BaseDir}, {BaseDir, CacheDir}, {BaseDir, CacheDir, BucketDir(<<"b">>)}}
    /\ files = <<>>
    /\ s3 = (KeyK :> CsvSimple) @@ (KeyDeep :> CsvTwoRows)
    /\ job = NoJob
    /\ hist = NoHist
    /\ budget = [calls |-> MaxFileCalls, conns |-> 0]

\* The test of parse_file_path starts with an address to parse.
InitParse ==
    /\ InitNet
    /\ InitStore
    /\ job = NoJob
    /\ \E path \in PathInputs : hist = [NoHist EXCEPT !.op = "input", !.name = path]
    /\ budget = [calls |-> 0, conns |-> 0]

\* file.rs, lines 343-364: parse_file_path(path)
Test_parse_file_path ==
    /\ hist.op = "input"
    /\ hist' = [hist EXCEPT !.op = "parse",
                            !.ok = parse_file_path(hist.name).ok,
                            !.pre = parse_file_path(hist.name)]
    /\ UNCHANGED <<netVars, job, storeVars, s3, budget>>

SpecParse == InitParse /\ [][Test_parse_file_path]_vars

\* file.rs, lines 371-377: localize_file(&file, &client_adapter)
Test_localize_file ==
    /\ budget.calls > 0
    /\ \E file \in FileInputs :
          LET r == localize_file(file, dirs, files, s3)
          IN  /\ dirs' = r.dirs
              /\ files' = r.files
              /\ hist' = [NoHist EXCEPT !.op = "localize", !.ok = r.ok, !.name = r.path,
                                        !.pre = files, !.w = file] @@ [s3 |-> s3]
    /\ budget' = [budget EXCEPT !.calls = @ - 1]
    /\ UNCHANGED <<netVars, job, db, s3>>

NextFile ==
    \/ Test_localize_file
    \/ S3Put

SpecFile == InitFile /\ [][NextFile]_vars

----------------------------------------------------------------------------
(* What the claims about the file localizer are stated with.               *)

\* <cache-root>/<bucket>/<key> of an accepted address
ExpectedPath(addr) ==
    CacheDir \o parse_file_path(addr).bucket \o <<"/">> \o parse_file_path(addr).object

\* The <<bucket, key>> an accepted address names in the storage service.
ObjectOf(addr) == <<parse_file_path(addr).bucket, parse_file_path(addr).object>>

\* C13: for every accepted address whose object the storage port returns,
\* localize succeeds from any state of the cache directory, the directories
\* exist afterwards, and the fetched bytes are at <cache-root>/<bucket>/<key>,
\* the path returned.
C13_LocalizeWritesAtPath ==
    (/\ hist.op = "localize"
     /\ parse_file_path(hist.w.path).ok
     /\ ObjectOf(hist.w.path) \in DOMAIN hist.s3) =>
        /\ hist.ok
        /\ hist.name = ExpectedPath(hist.w.path)
        /\ {BaseDir, CacheDir, BucketDir(parse_file_path(hist.w.path).bucket)} \subseteq dirs
        /\ hist.name \in DOMAIN files
        /\ files[hist.name] = hist.s3[ObjectOf(hist.w.path)]

C16_ParseFilePath ==
    hist.op = "parse" =>
        LET path == hist.name
            r == hist.pre
            rest == SubSeq(path, Len(S3Prefix) + 1, Len(path))
        IN  IF ~StartsWith(path, S3Prefix) \/ "/" \notin Range(rest)
            THEN ~r.ok
            ELSE /\ r.ok
                 /\ "/" \notin Range(r.bucket)
                 /\ S3Prefix \o r.bucket \o <<"/">> \o r.object = path

\* C16 witness: an accepted address whose key contains a '/'.
C16_Witness ==
    /\ hist.op = "parse" /\ hist.ok
    /\ "/" \in Range(hist.pre.object)

----------------------------------------------------------------------------
(* What the claims about get_workload_files and localize_files are stated  *)
(* with.                                                                   *)

\* The position of the first target of the flattened workload with this id.
FirstIndex(all, id) ==
    CHOOSE k \in 1..Len(all) : all[k].id = id /\ \A m \in 1..(k - 1) : all[m].id # id

\* C15: the deduplicated file list holds every file id of the workload once,
\* each entry being the first target with its id, in the order of first
\* appearance.
C15_WorkloadFilesFirstSeen ==
    job.fn = "build" =>
        LET all == Flatten(job.w)
            fs == job.wfiles
        IN  /\ {fs[i].id : i \in 1..Len(fs)} = {all[k].id : k \in 1..Len(all)}
            /\ \A i, j \in 1..Len(fs) : i # j => fs[i].id # fs[j].id
            /\ \A i \in 1..Len(fs) : fs[i] = all[FirstIndex(all, fs[i].id)]
            /\ \A i, j \in 1..Len(fs) :
                  i < j => FirstIndex(all, fs[i].id) < FirstIndex(all, fs[j].id)

\* C15 witness: two references to one id with different addresses, of which
\* the first is kept.
C15_Witness ==
    /\ job.fn = "build"
    /\ Len(Flatten(job.w)) = 2
    /\ Flatten(job.w)[1].id = Flatten(job.w)[2].id
    /\ Flatten(job.w)[1].path # Flatten(job.w)[2].path
    /\ job.wfiles = <<Flatten(job.w)[1]>>

\* localize_files of the build in flight has returned Ok.
LocalizeFilesReturnedOk == job.fn = "build" /\ job.pc \in {"drop", "dump"}

\* C17: when localize_files has returned Ok there is one path per distinct
\* file id, and the i-th path is the cache path of the i-th file of the
\* deduplicated list, where its file has been written.
C17_LocalizeFilesPairs ==
    LocalizeFilesReturnedOk =>
        /\ Len(job.paths) = Len(job.wfiles)
        /\ Len(job.paths) = Cardinality({f.id : f \in Range(Flatten(job.w))})
        /\ \A i \in 1..Len(job.wfiles) :
              /\ job.paths[i] = ExpectedPath(job.wfiles[i].path)
              /\ job.paths[i] \in DOMAIN files

\* C17 witness: two files localized to two different paths.
C17_Witness ==
    /\ LocalizeFilesReturnedOk
    /\ Len(job.paths) = 2
    /\ job.paths[1] # job.paths[2]

\* The address of the file is rejected or its object is not in the storage
\* service.
LocalizeFails(file) ==
    \/ ~parse_file_path(file.path).ok
    \/ ObjectOf(file.path) \notin DOMAIN s3

\* C18: when a file of the deduplicated list cannot be localized, whatever
\* its position, localize_files never returns a list: build goes no further
\* than localizing and returns the error without having dropped or loaded a
\* table.
C18_LocalizeFilesAllOrNothing ==
    (job.fn = "build" /\ \E i \in 1..Len(job.wfiles) : LocalizeFails(job.wfiles[i])) =>
        /\ job.pc \in {"localize", "ret"}
        /\ job.pc = "ret" => (~job.ok /\ job.nconnect = 0 /\ db.tables = job.pre)

\* C18 witness: the second of two files failed after the first had been
\* localized.
C18_Witness ==
    /\ BuildReturned /\ ~job.ok
    /\ Len(job.wfiles) = 2
    /\ Len(job.paths) = 1
    /\ LocalizeFails(job.wfiles[2])

----------------------------------------------------------------------------
(* The claims about the job pipeline and the dispatch of handle_connection. *)

\* the call of a function of the Job starts in this step
Starts(fn) == job'.fn = fn /\ job.fn # fn

\* the previous call of the Job returned Ok
ReturnedOk(fn) == job.fn = fn /\ job.pc = "ret" /\ job.ok

\* C19: for a WORK frame that decoded, build starts only when Job::new has
\* returned Ok, run starts only when build has returned Ok (never after a
\* failed build, never while build is under way), and a result is rendered
\* only when run has returned Ok, the rendered rows being run's result.
C19_BuildThenRunThenPrint ==
    [][ /\ Starts("new") => (pc = "payload" /\ job = NoJob)
        /\ Starts("build") => ReturnedOk("new")
        /\ Starts("run") => ReturnedOk("build")
        /\ out' # out => (ReturnedOk("run") /\ out' = Append(out, job.result)) ]_vars

\* a WORK frame went through the whole pipeline: its result was rendered
C19_Witness ==
    /\ out # <<>>
    /\ out[1] # <<>>
    /\ \E c \in DOMAIN conns :
          conns[c].st = "done" /\ conns[c].jobs = 1 /\ conns[c].res = "ok"

\* the header the handler dispatched on carries an unknown signal
UnknownSignal(c) == conns[c].got # <<>> /\ conns[c].got[1] \notin {0, 1, 2}

\* C20: once the handler has dispatched on a header whose signal byte is not
\* 0, 1 or 2, the process is gone: the last bytes taken from the connection
\* are that header (nothing after it was read), no payload buffer was
\* returned, no Job was made, and every other connection that waits is never
\* accepted.
C20_UnknownSignalEndsProcess ==
    \A c \in DOMAIN conns :
        UnknownSignal(c) =>
            /\ pc = "dead"
            /\ cur = {}
            /\ conns[c].res = "panic"
            /\ conns[c].got = SubSeq(conns[c].plan, conns[c].rd - 2, conns[c].rd)
            /\ conns[c].payload = <<>>
            /\ conns[c].jobs = 0
            /\ job = NoJob
            /\ \A b \in DOMAIN conns : b > c => conns[b].st = "pending"

\* the process went down on an unknown signal whose payload byte had
\* arrived, while another peer waited to be accepted
C20_Witness ==
    \E c \in DOMAIN conns :
        /\ UnknownSignal(c)
        /\ conns[c].plan = UnknownSignalFrame
        /\ conns[c].sent = 4 /\ conns[c].rd = 3
        /\ pc = "dead"
        /\ \E b \in DOMAIN conns : b > c /\ conns[b].st = "pending" /\ conns[b].sent > 0

----------------------------------------------------------------------------
(* Whole frames on the wire: two peers have connected and delivered all    *)
(* they send before the listener accepts the first. The first connection   *)
(* carries one frame, with or without further bytes behind it; the second  *)
(* carries a WORK frame.                                                   *)

\* headers of PING and SHUTDOWN with length bytes of every kind
FrameHeads == {<<sig, hi, lo>> : sig \in {0, 2}, hi \in {0, 1}, lo \in {0, 3}}

\* what a peer sends behind its frame: nothing, or a second WORK frame
Trailing == {<<>>, craft_workload_buffer(WireSelect)}

FramePlans ==
    {h \o t : h \in FrameHeads, t \in Trailing}
        \cup {craft_workload_buffer(w) \o t : w \in Encodable, t \in Trailing}
        \cup {UnknownSignalFrame, GarbageWorkFrame}

Delivered(plan, closed) ==
    [NewConn(plan) EXCEPT !.sent = Len(plan), !.closed = closed]

InitFrames ==
    /\ pc = "accept"
    /\ \E plan \in FramePlans, closed \in BOOLEAN :
          conns = <<Delivered(plan, closed),
                    Delivered(craft_workload_buffer(WireSelect), TRUE)>>
    /\ cur = {}
    /\ hdr = <<0, 0, 0>>
    /\ pbuf = <<>>
    /\ out = <<>>
    /\ db = [file |-> FALSE, tables |-> <<>>, open |-> 0]
    /\ dirs \in {{}, {BaseDir, CacheDir}}
    /\ files = <<>>
    /\ s3 = (KeyK :> CsvSimple) @@ (KeyJ :> CsvTwoRows)
    /\ job = NoJob
    /\ hist = NoHist @@ [store |-> <<db, dirs, files>>]
    /\ budget = [calls |-> 0, conns |-> 0]

NextFrames ==
    \/ Accept
    \/ Read_metadata
    \/ Read_protobuf
    \/ Handle_job
    \/ JobStep

SpecFrames == InitFrames /\ [][NextFrames]_vars

\* the header the handler dispatched on is a PING or a SHUTDOWN
PingOrShutdown(c) == conns[c].got # <<>> /\ conns[c].got[1] \in {0, 2}

\* C21: once the handler has dispatched on a header with signal 0 or 2,
\* whatever its length bytes, it has returned Ok: nothing behind the header
\* was read, no payload buffer was returned, no Job was made, cache and
\* store are as they were when the connection was accepted, and the
\* listener is back in accept, where a waiting connection can be accepted.
C21_PingAndShutdownDoNothing ==
    \A c \in DOMAIN conns :
        PingOrShutdown(c) =>
            /\ conns[c].st = "done"
            /\ conns[c].res = "ok"
            /\ conns[c].got = SubSeq(conns[c].plan, conns[c].rd - 2, conns[c].rd)
            /\ conns[c].payload = <<>>
            /\ conns[c].jobs = 0
            /\ job = NoJob
            /\ ~conns[c].touched
            /\ <<db, dirs, files>> = hist.store
            /\ pc = "accept"
            /\ (\E b \in DOMAIN conns : conns[b].st = "pending") => ENABLED Accept

\* a SHUTDOWN whose length bytes declare 259 bytes, with a WORK frame behind
\* it, was dispatched while another peer waits with its WORK frame
C21_Witness ==
    /\ PingOrShutdown(1)
    /\ conns[1].got = <<2, 1, 3>>
    /\ conns[1].sent > 3
    /\ conns[2].st = "pending"
    /\ pc = "accept"

\* the handler has finished reading the frame of connection c
FrameRead(c) == conns[c].got # <<>> /\ (conns[c].st = "done" \/ pc = "job")

\* C22: for every workload of serialized size n, craft_workload_buffer is
\* <<1, n div 256, n mod 256>> followed by the n bytes of the message, n + 3
\* bytes in all; and the handler that has read this frame has computed the
\* payload length n from the header, has read the n bytes of the message,
\* has decoded the workload that was serialized and has made its Job.
C22_FramingRoundTrip ==
    \A w \in Encodable :
        LET n == Len(write_to_bytes(w))
            frame == craft_workload_buffer(w)
        IN  /\ frame = <<1, n \div 256, n % 256>> \o write_to_bytes(w)
            /\ Len(frame) = n + 3
            /\ \A c \in DOMAIN conns :
                  (StartsWith(conns[c].plan, frame) /\ FrameRead(c)) =>
                      /\ 256 * conns[c].got[2] + conns[c].got[3] = n
                      /\ conns[c].payload = write_to_bytes(w)
                      /\ parse_from_bytes(conns[c].payload) = [ok |-> TRUE, w |-> w]
                      /\ conns[c].jobs = 1

\* C23: a handler that returned before any header was read did so because
\* the peer had closed, and returned Ok; a read attempt that finds nothing
\* to read on an open connection is never what ends it.
C23_NoDataIsNotAnError ==
    \A c \in DOMAIN conns :
        (conns[c].st = "done" /\ conns[c].res # "none" /\ conns[c].got = <<>>) =>
            /\ conns[c].fail # "read"
            /\ conns[c].res = "ok"
            /\ conns[c].closed

\* C24: whatever a connection carried and however its handler ended, the
\* worker has written no byte to its socket (wr counts the bytes written to
\* the peer; rendered rows go to standard output, out).
C24_NothingWrittenToPeer ==
    \A c \in DOMAIN conns : conns[c].wr = 0

\* a WORK frame whose job succeeded: its rows are on standard output and the
\* peer, still connected, has received nothing
C24_Witness ==
    \E c \in DOMAIN conns :
        /\ conns[c].st = "done" /\ conns[c].res = "ok" /\ conns[c].jobs = 1
        /\ ~conns[c].closed
        /\ conns[c].wr = 0
        /\ out = << << <<1>> >> >>

\* C25: at most one connection to the store is open at any moment, and one
\* is open only inside Job::run: none while the listener waits in accept,
\* while the handler reads from the socket, while files are localized, or
\* between two calls of the handler or of the harness.
C25_StoreConnectionsPerCall ==
    /\ db.open \in {0, 1}
    /\ db.open = 1 => (job.fn = "run" /\ job.pc = "stmt")
    /\ pc \in {"accept", "hdr", "payload"} => db.open = 0
    /\ job.pc \in {"idle", "ret", "localize"} => db.open = 0

\* Job::run holds its connection after the first statement has run, in a
\* handler whose Job::new and build opened and closed theirs
C25_Witness ==
    /\ pc = "job"
    /\ job.fn = "run" /\ job.pc = "stmt" /\ job.i > 1
    /\ job.wfiles # <<>>
    /\ db.open = 1

\* a source whose every cell is an integer literal, as simple-csv.csv of
\* test_load_table
IntegerSource(content) ==
    /\ WellFormedSource(content)
    /\ \A r \in 1..Len(content.rows) : \A i \in 1..Len(content.rows[r]) :
          IsLiteral(content.rows[r][i])

\* drop on a store that can be opened returned Ok and left exactly the other
\* tables
DropRemovesOnlyTheTable ==
    (hist.op = "drop" /\ StoreReachable) =>
        (hist.ok /\ db.tables = Remove(hist.pre, hist.name))

\* C26: drop succeeds whether or not the table exists and leaves the store
\* without the table and with every other table as it was; and a dump that
\* finds the table absent, as a drop leaves it, loads it from its source.
C26_DropThenLoadIsFresh ==
    /\ DropRemovesOnlyTheTable
    /\ (/\ hist.op = "dump"
        /\ StoreReachable
        /\ hist.name \notin DOMAIN hist.pre
        /\ IntegerSource(DumpedSource)) =>
            /\ hist.ok
            /\ hist.name \in DOMAIN db.tables
            /\ db.tables[hist.name].rows = ExpectedRows(DumpedSource)

----------------------------------------------------------------------------
(* lib.rs: print_result. A result set is its column names and its rows; a  *)
(* cell is a value of the store with its storage class. The output is the  *)
(* text handed to println!, as a sequence of tokens.                       *)

MaxRows == 2         \* rows of a result set that is rendered

\* i is the value of an INTEGER, s the value of a TEXT
IntCell(v) == [t |-> "INTEGER", i |-> v, s |-> ""]
TextCell(v) == [t |-> "TEXT", i |-> 0, s |-> v]
NullCell == [t |-> "NULL", i |-> 0, s |-> ""]

Cells == {IntCell(1), IntCell(-5), TextCell("hello"), TextCell("1"), NullCell}
ColumnSets == {<<"a">>, <<"a", "b">>}

\* row.try_get::<i64>(i): succeeds on a value of storage class INTEGER
try_get_i64(cell) == [ok |-> cell.t = "INTEGER", v |-> cell.i]
\* row.try_get::<String>(i): succeeds on a value of storage class TEXT
try_get_String(cell) == [ok |-> cell.t = "TEXT", v |-> cell.s]

\* lines 168-189, the cells of one row from index i on: [ok, out]
RECURSIVE print_cells(_, _)
print_cells(row, i) ==
    IF i > Len(row) THEN [ok |-> TRUE, out |-> <<>>]
    ELSE LET asInt == try_get_i64(row[i])
             asText == try_get_String(row[i])
             rest == print_cells(row, i + 1)
         IN  IF asInt.ok
             THEN [ok |-> rest.ok, out |-> <<ToString(asInt.v), "|">> \o rest.out]
             ELSE IF asText.ok
             THEN [ok |-> rest.ok, out |-> <<asText.v, "|">> \o rest.out]
             ELSE [ok |-> FALSE, out |-> <<>>]

\* lines 136-141: "|" and every column name followed by "|"
RECURSIVE print_header(_, _)
print_header(columns, i) ==
    IF i > Len(columns) THEN <<>>
    ELSE <<columns[i], "|">> \o print_header(columns, i + 1)

\* print_rows with the rows taken from the last to the first
RECURSIVE print_rows_reversed(_, _)
print_rows_reversed(rows, i) ==
    IF i > Len(rows) THEN [ok |-> TRUE, out |-> <<>>]
    ELSE LET cells == print_cells(rows[Len(rows) + 1 - i], 1)
             rest == print_rows_reversed(rows, i + 1)
         IN  [ok |-> cells.ok /\ rest.ok, out |-> <<"\n", "|">> \o cells.out \o rest.out]

\* lines 164-190: "\n|" and the cells of every row, in result order
RECURSIVE print_rows(_, _)
print_rows(rows, i) ==
    IF i > Len(rows) THEN [ok |-> TRUE, out |-> <<>>]
    ELSE LET cells == print_cells(rows[i], 1)
             rest == print_rows(rows, i + 1)
         IN  [ok |-> cells.ok /\ rest.ok, out |-> <<"\n", "|">> \o cells.out \o rest.out]

\* print_result: [ok, out]; nothing is printed for an empty result set or
\* when a cell decodes neither as i64 nor as String. println! ends the text
\* with a newline.
print_result(columns, rows) ==
    IF Len(rows) = 0 THEN [ok |-> TRUE, out |-> <<>>]
    ELSE LET body == print_rows(rows, 1)
         IN  IF ~body.ok THEN [ok |-> FALSE, out |-> <<>>]
             ELSE [ok |-> TRUE,
                   out |-> <<"|">> \o print_header(columns, 1) \o body.out \o <<"\n">>]

\* the result sets print_result is given
ResultSets ==
    {[columns |-> cols, rows |-> rows] :
        cols \in ColumnSets,
        rows \in SeqsUpTo(UNION {[1..Len(c) -> Cells] : c \in ColumnSets}, MaxRows)}

InitRender ==
    /\ InitNet
    /\ InitStore
    /\ job = NoJob
    /\ \E rs \in ResultSets :
          /\ \A r \in 1..Len(rs.rows) : Len(rs.rows[r]) = Len(rs.columns)
          /\ hist = [NoHist EXCEPT !.op = "input", !.w = rs.columns, !.pre = rs.rows]
    /\ budget = [calls |-> 0, conns |-> 0]

\* lib.rs, line 239: Worker::print_result(result)
Test_print_result ==
    /\ hist.op = "input"
    /\ LET r == print_result(hist.w, hist.pre)
       IN  /\ out' = r.out
           /\ hist' = [hist EXCEPT !.op = "print", !.ok = r.ok]
    /\ UNCHANGED <<pc, conns, cur, hdr, pbuf, job, storeVars, s3, budget>>

SpecRender == InitRender /\ [][Test_print_result]_vars

\* the lines of a text: the runs of tokens that end with a newline
RECURSIVE Lines(_)
Lines(text) ==
    IF text = <<>> THEN <<>>
    ELSE LET nl == CHOOSE i \in 1..Len(text) :
                       text[i] = "\n" /\ \A j \in 1..(i - 1) : text[j] # "\n"
         IN  <<SubSeq(text, 1, nl - 1)>> \o Lines(SubSeq(text, nl + 1, Len(text)))

\* a cell as text: an integer in decimal, a text as it is
Stringified(cell) == IF cell.t = "INTEGER" THEN ToString(cell.i) ELSE cell.s

\* "|x1|x2|...|xk|"
PipeLine(xs) == <<"|">> \o [i \in 1..(2 * Len(xs)) |-> IF i % 2 = 1 THEN xs[(i + 1) \div 2] ELSE "|"]

Decodable(rows) ==
    \A r \in 1..Len(rows) : \A i \in 1..Len(rows[r]) : rows[r][i].t \in {"INTEGER", "TEXT"}

\* C27: print_result of n >= 1 rows whose cells are integers or texts
\* returns Ok and prints n + 1 lines: the column names between pipes, then
\* for every row, in result order, its cells between pipes, an integer in
\* decimal and a text as it is.
C27_RenderedTable ==
    (hist.op = "print" /\ Len(hist.pre) >= 1 /\ Decodable(hist.pre)) =>
        /\ hist.ok
        /\ Len(Lines(out)) = Len(hist.pre) + 1
        /\ Lines(out)[1] = PipeLine(hist.w)
        /\ \A r \in 1..Len(hist.pre) :
              Lines(out)[r + 1] = PipeLine([i \in 1..Len(hist.pre[r]) |-> Stringified(hist.pre[r][i])])

\* two different rows of two columns, integers and texts among the cells,
\* were rendered
C27_Witness ==
    /\ hist.op = "print" /\ hist.ok
    /\ hist.w = <<"a", "b">>
    /\ hist.pre = << <<IntCell(-5), TextCell("hello")>>, <<TextCell("1"), IntCell(1)>> >>
    /\ Len(Lines(out)) = 3

----------------------------------------------------------------------------
(* The claims about a stalled peer and about what a connection carries.    *)

\* the handler waits for bytes of its connection, and the peer has neither
\* sent any that are unread nor closed
Stalled ==
    /\ pc \in {"hdr", "payload"}
    /\ Avail(TheConn) = 0
    /\ ~conns[TheConn].closed
    /\ pc = "payload" => Len(pbuf) > 0

\* no connection that waits is accepted in this step
NoneAccepted ==
    \A b \in DOMAIN conns : conns[b].st = "pending" => conns'[b].st = "pending"

\* C28: while the peer of the connection being handled neither sends nor
\* closes, every step leaves the handler where it is, on that connection,
\* and no other connection is accepted.
C28_StalledPeerBlocksWorker ==
    [][ Stalled => (pc' = pc /\ cur' = cur /\ NoneAccepted) ]_vars

\* C29: whenever Job::new has returned, it has returned Ok and the database
\* file exists, whether or not the file or the cache directory existed
\* before.
C29_JobNewAlwaysSucceeds ==
    (job.fn = "new" /\ job.pc = "ret") => (job.ok /\ db.file)

\* the bytes of its connection a handler reads for the frame it dispatched
\* on: the header, and for WORK the payload the header declares
FrameLength(c) ==
    3 + (IF conns[c].got[1] = 1 THEN 256 * conns[c].got[2] + conns[c].got[3] ELSE 0)

\* C30: of a connection at most one header is dispatched and at most one Job
\* is made; once its handler has returned the connection is no longer being
\* handled, and whatever the peer sent behind the first frame is never read;
\* no more results are rendered than connections were accepted.
C30_OneFramePerConnection ==
    /\ \A c \in DOMAIN conns :
          /\ conns[c].jobs <= 1
          /\ conns[c].rd <= 3 \/ (conns[c].got # <<>> /\ conns[c].rd <= FrameLength(c))
          /\ conns[c].st = "done" => c \notin cur
    /\ Len(out) <= Cardinality({b \in DOMAIN conns : conns[b].st # "pending"})

\* a peer sent two WORK frames on one connection: the first was run and
\* rendered, the handler returned, and the 6 bytes of the second are unread
C30_Witness ==
    /\ conns[1].plan = craft_workload_buffer(WireSelect) \o craft_workload_buffer(WireSelect)
    /\ conns[1].st = "done" /\ conns[1].res = "ok"
    /\ conns[1].jobs = 1
    /\ conns[1].rd = 6 /\ conns[1].sent = 12
    /\ Len(out) = 1
    /\ pc = "accept"

----------------------------------------------------------------------------
(* Further claims about the localizer, the job pipeline and the loader.    *)

\* C31: localize of a file whose cached copy exists succeeds, returns the
\* path of the copy and leaves the cache as it was, the bytes of the copy
\* included, whatever the storage service holds by then.
C31_CacheHitIsNoOp ==
    (/\ hist.op = "localize"
     /\ parse_file_path(hist.w.path).ok
     /\ ExpectedPath(hist.w.path) \in DOMAIN hist.pre) =>
        /\ hist.ok
        /\ hist.name = ExpectedPath(hist.w.path)
        /\ files = hist.pre

\* the first reference of the workload that carries this id
FirstReference(w, id) == Flatten(w)[FirstIndex(Flatten(w), id)]

\* C32: in a build, the files localized are one per identifier, each at the
\* path of the first address given for its identifier; and after a build
\* that succeeded, dataset_<id> holds the data of the object at that first
\* address, for every reference of the workload.
C32_SameIdFirstAddressWins ==
    job.fn = "build" =>
        /\ Len(job.paths) <= Cardinality({f.id : f \in Range(Flatten(job.w))})
        /\ \A i \in 1..Len(job.paths) :
              job.paths[i] = ExpectedPath(FirstReference(job.w, job.wfiles[i].id).path)
        /\ (job.pc = "ret" /\ job.ok) =>
              \A f \in Range(Flatten(job.w)) :
                  /\ DatasetName(f.id) \in DOMAIN db.tables
                  /\ db.tables[DatasetName(f.id)].rows =
                        DataRows(s3[ObjectOf(FirstReference(job.w, f.id).path)])

\* one identifier referenced at s3://b/k and then at s3://b/j, the objects
\* holding different rows: the build succeeded, dataset_1 holds the rows of
\* b/k, and b/j is not in the cache
C32_Witness ==
    /\ job.fn = "build" /\ job.pc = "ret" /\ job.ok
    /\ Len(Flatten(job.w)) = 2
    /\ Flatten(job.w)[1] = craft_file_message(1, AddrK)
    /\ Flatten(job.w)[2] = craft_file_message(1, AddrJ)
    /\ KeyJ \in DOMAIN s3
    /\ DataRows(s3[KeyK]) # DataRows(s3[KeyJ])
    /\ db.tables["dataset_1"].rows = DataRows(s3[KeyK])
    /\ ExpectedPath(AddrJ) \notin DOMAIN files

\* C33: an address that parse_file_path accepts has a non-empty bucket and
\* a non-empty key.
C33_AcceptedAddressHasBucketAndKey ==
    (hist.op = "parse" /\ hist.ok) =>
        (hist.pre.bucket # <<>> /\ hist.pre.object # <<>>)

\* the tables a build may touch: dataset_<id> for the files of its list
OwnTables == {DatasetName(job.wfiles[i].id) : i \in 1..Len(job.wfiles)}

\* the step is a call of Table::dump or Table::drop made directly, outside
\* any job
DirectTableCall == job.pc = "idle" /\ hist'.op \in {"dump", "drop"}

\* C34: the tables of the store change only in a step of a job's build or
\* run or in a direct call of the table loader (between jobs, and from one
\* connection to the next, they stay as they are, and the database file
\* once made stays); and a step of build leaves every table that is not
\* dataset_<id> of its own file list as it was.
C34_StoreSharedAcrossJobs ==
    [][ /\ db.file => db'.file
        /\ db'.tables # db.tables => (job.pc \in {"drop", "dump", "stmt"} \/ DirectTableCall)
        /\ job.fn = "build" =>
              \A t \in (DOMAIN db.tables \cup DOMAIN db'.tables) \ OwnTables :
                  /\ t \in DOMAIN db.tables /\ t \in DOMAIN db'.tables
                  /\ db'.tables[t] = db.tables[t] ]_vars

\* a job whose only file has id 2 was built on the store the job before it
\* left: dataset_1 is as that job loaded it, dataset_2 was loaded
C34_Witness ==
    /\ job.fn = "build" /\ job.pc = "ret" /\ job.ok
    /\ {job.wfiles[i].id : i \in 1..Len(job.wfiles)} = {2}
    /\ "dataset_1" \in DOMAIN job.pre
    /\ job.pre["dataset_1"].rows # <<>>
    /\ "dataset_1" \in DOMAIN db.tables
    /\ db.tables["dataset_1"] = job.pre["dataset_1"]
    /\ "dataset_2" \in DOMAIN db.tables

\* the handler dispatched on a WORK header that declares a payload of 0 bytes
EmptyWorkHeader(c) == conns[c].got = <<1, 0, 0>>

\* C35: a handler that dispatched on a WORK header declaring payload length
\* 0 and has finished reading the frame has handled a WORK frame with an
\* empty payload: the Workload with no ops was decoded and its Job was made.
C35_EmptyPayloadIsWork ==
    \A c \in DOMAIN conns :
        (EmptyWorkHeader(c) /\ FrameRead(c)) =>
            /\ parse_from_bytes(conns[c].payload).ok
            /\ conns[c].jobs = 1

\* build returned the error of localize_files: fewer paths than files
LocalizationFailed ==
    /\ job.fn = "build" /\ job.pc = "ret" /\ ~job.ok
    /\ Len(job.paths) < Len(job.wfiles)

\* C36: while build localizes, and when it has returned because a file could
\* not be localized, no connection to the store was opened by it and the
\* tables are those of the moment build was called; the files localized
\* before the failing one are in the cache with the bytes of their objects.
C36_FailedLocalizationLeavesStore ==
    (job.fn = "build" /\ (job.pc = "localize" \/ LocalizationFailed)) =>
        /\ db.tables = job.pre
        /\ job.nconnect = 0
        /\ db.open = 0
        /\ \A i \in 1..Len(job.paths) :
              /\ job.paths[i] \in DOMAIN files
              /\ files[job.paths[i]] = s3[ObjectOf(job.wfiles[i].path)]

\* the table of the first file was in the store with rows when build was
\* called; the first file was localized, the second was not
C36_Witness ==
    /\ LocalizationFailed
    /\ Len(job.wfiles) = 2
    /\ Len(job.paths) = 1
    /\ DatasetName(job.wfiles[1].id) \in DOMAIN job.pre
    /\ job.pre[DatasetName(job.wfiles[1].id)].rows # <<>>
    /\ job.paths[1] \in DOMAIN files

\* the statement at position k is the first that fails when the statements
\* are run in array order on the tables t0
FirstFailure(t0, sts, k) ==
    /\ k \in 1..Len(sts)
    /\ \A m \in 1..(k - 1) : Sqlite_query(TablesAfter(t0, sts, m - 1), sts[m]).ok
    /\ ~Sqlite_query(TablesAfter(t0, sts, k - 1), sts[k]).ok

\* C37: when run has connected and its k-th statement is the first to fail,
\* run returns the error, exactly the k - 1 statements before it were
\* executed, none behind it, and the tables are those the k - 1 statements
\* left: nothing is rolled back.
C37_RunStopsAtFirstFailure ==
    LET sts == Statements(job.w)
    IN  \A k \in 1..Len(sts) :
            (RunReturned /\ job.nconnect = 1 /\ FirstFailure(job.pre, sts, k)) =>
                /\ ~job.ok
                /\ job.result = <<>>
                /\ job.trace = SubSeq(sts, 1, k - 1)
                /\ db.tables = TablesAfter(job.pre, sts, k - 1)

\* the second of two statements failed after the first had changed the
\* tables
C37_Witness ==
    /\ RunReturned /\ ~job.ok /\ job.nconnect = 1
    /\ Len(job.w) = 2
    /\ FirstFailure(job.pre, Statements(job.w), 2)
    /\ Len(job.trace) = 1
    /\ db.tables # job.pre

\* dump, lines 125-136: the INSERT of the r-th data record of the file
\* fails, in a table of ncols columns
RecordFails(content, r, ncols) ==
    LET record == content.rows[r]
    IN  \/ Len(record) # Len(content.header)
        \/ \E i \in 1..Len(record) : ~IsLiteral(record[i])
        \/ Len(record) # ncols

\* the values of the first k data records of the file
FirstRows(content, k) ==
    [r \in 1..k |-> [c \in 1..Len(content.rows[r]) |-> IntLiteral[content.rows[r][c]]]]

\* C38: when a direct dump has failed after it created the table, a data
\* record of the file failed; the table holds exactly the rows of the
\* records before the first failing one, in file order, none of the records
\* behind it, and every other table is as it was.
C38_FailedLoadKeepsEarlierRows ==
    (/\ hist.op = "dump" /\ ~hist.ok
     /\ hist.name \notin DOMAIN hist.pre
     /\ hist.name \in DOMAIN db.tables) =>
        LET content == LocalFiles[hist.w]
            tbl == db.tables[hist.name]
        IN  /\ tbl.cols = HeaderColumns(content.header).cols
            /\ \E k \in 1..Len(content.rows) :
                  /\ RecordFails(content, k, Len(tbl.cols))
                  /\ \A m \in 1..(k - 1) : ~RecordFails(content, m, Len(tbl.cols))
                  /\ tbl.rows = FirstRows(content, k - 1)
            /\ \A t \in DOMAIN hist.pre :
                  t \in DOMAIN db.tables /\ db.tables[t] = hist.pre[t]

\* the load of the file with rows 1, hello, 2 failed: the table holds the
\* row 1 alone
C38_Witness ==
    /\ hist.op = "dump" /\ ~hist.ok
    /\ hist.w = <<"tests/artifacts/", "bad-row.csv">>
    /\ hist.name \notin DOMAIN hist.pre
    /\ hist.name \in DOMAIN db.tables
    /\ db.tables[hist.name].rows = << <<1>> >>

----------------------------------------------------------------------------
(* mini-cluster-scheduler, worker_proxy.rs: the WorkerProxy of the         *)
(* scheduler. The streams the proxy has made are conns, each open, reset   *)
(* by the worker, or closed; the proxy's `connection` field is cur, {} for *)
(* None and {s} for Some(stream s); out is the log of the calls made on    *)
(* the proxy and hist the last of them.                                    *)

MaxProxyCalls == 4   \* calls of connect and close made on one proxy

\* WorkerProxy::new, lines 20-22: no connection is held
WorkerProxy_new == {}

Call(op, ok, kind) == [op |-> op, ok |-> ok, kind |-> kind]

\* the stream a dropped TcpStream leaves behind
DropStream(streams, held) ==
    [s \in DOMAIN streams |-> IF s \in held THEN "closed" ELSE streams[s]]

InitProxy ==
    /\ pc = "proxy"
    /\ conns = <<>>
    /\ cur = WorkerProxy_new
    /\ hdr = <<0, 0, 0>>
    /\ pbuf = <<>>
    /\ out = <<>>
    /\ job = NoJob
    /\ db = [file |-> FALSE, tables |-> <<>>, open |-> 0]
    /\ dirs = {}
    /\ files = <<>>
    /\ s3 = <<>>
    /\ hist = [NoHist EXCEPT !.pre = {}]
    /\ budget = [calls |-> MaxProxyCalls, conns |-> 0]

\* WorkerProxy_close with the connection borrowed instead of taken: it is
\* given up only when the shutdown succeeded.
WorkerProxy_close_borrowed ==
    /\ budget.calls > 0
    /\ IF cur = {}
       THEN /\ out' = Append(out, Call("close", FALSE, "NetworkError"))
            /\ UNCHANGED <<conns, cur>>
       ELSE \E ok \in IF conns[TheConn] = "reset" THEN BOOLEAN ELSE {TRUE} :
               /\ conns' = IF ok THEN DropStream(conns, cur) ELSE conns
               /\ cur' = IF ok THEN {} ELSE cur
               /\ out' = Append(out, Call("close", ok, IF ok THEN "" ELSE "io"))
    /\ hist' = [NoHist EXCEPT !.op = "close", !.ok = out'[Len(out')].ok,
                              !.name = out'[Len(out')].kind, !.pre = cur]
    /\ budget' = [budget EXCEPT !.calls = @ - 1]
    /\ UNCHANGED <<pc, hdr, pbuf, job, storeVars, s3>>

\* WorkerProxy::connect, lines 34-36: TcpStream::connect fails and `?`
\* returns before the assignment, or the new stream replaces the held one,
\* which is dropped.
WorkerProxy_connect ==
    /\ budget.calls > 0
    /\ \E ok \in BOOLEAN :
          /\ conns' = IF ok THEN Append(DropStream(conns, cur), "open") ELSE conns
          /\ cur' = IF ok THEN {Len(conns) + 1} ELSE cur
          /\ out' = Append(out, Call("connect", ok, IF ok THEN "" ELSE "io"))
          /\ hist' = [NoHist EXCEPT !.op = "connect", !.ok = ok,
                                    !.name = IF ok THEN "" ELSE "io", !.pre = cur]
    /\ budget' = [budget EXCEPT !.calls = @ - 1]
    /\ UNCHANGED <<pc, hdr, pbuf, job, storeVars, s3>>

\* WorkerProxy::close, lines 47-55: take() leaves None in the field; with
\* nothing taken the NetworkError is returned, else the stream is shut down
\* (which can fail once the worker has reset it) and dropped.
WorkerProxy_close ==
    /\ budget.calls > 0
    /\ IF cur = {}
       THEN /\ out' = Append(out, Call("close", FALSE, "NetworkError"))
            /\ UNCHANGED <<conns, cur>>
       ELSE \E ok \in IF conns[TheConn] = "reset" THEN BOOLEAN ELSE {TRUE} :
               /\ conns' = DropStream(conns, cur)
               /\ cur' = {}
               /\ out' = Append(out, Call("close", ok, IF ok THEN "" ELSE "io"))
    /\ hist' = [NoHist EXCEPT !.op = "close", !.ok = out'[Len(out')].ok,
                              !.name = out'[Len(out')].kind, !.pre = cur]
    /\ budget' = [budget EXCEPT !.calls = @ - 1]
    /\ UNCHANGED <<pc, hdr, pbuf, job, storeVars, s3>>

\* the worker resets a stream that is open
Worker_resets ==
    /\ \E s \in DOMAIN conns :
          /\ conns[s] = "open"
          /\ conns' = [conns EXCEPT ![s] = "reset"]
    /\ UNCHANGED <<pc, cur, hdr, pbuf, out, job, storeVars, s3, hist, budget>>

NextProxy ==
    \/ WorkerProxy_connect
    \/ WorkerProxy_close
    \/ Worker_resets

SpecProxy == InitProxy /\ [][NextProxy]_vars

\* a successful connect of the log has no close behind it
ConnectedAndNotClosed(log) ==
    \E i \in 1..Len(log) :
        /\ log[i].op = "connect" /\ log[i].ok
        /\ \A j \in (i + 1)..Len(log) : log[j].op # "close"

\* C39: the proxy holds a connection exactly when a successful connect has
\* no close behind it; after any close it holds none, and a close that found
\* none (the first call, or the call after another close) failed with a
\* NetworkError; a failed connect left the held connection as it was.
C39_ProxyHoldsConnection ==
    /\ (cur # {}) <=> ConnectedAndNotClosed(out)
    /\ hist.op = "close" =>
          /\ cur = {}
          /\ hist.pre = {} => (~hist.ok /\ hist.name = "NetworkError")
    /\ \A i \in 2..Len(out) :
          (out[i - 1].op = "close" /\ out[i].op = "close") =>
              (~out[i].ok /\ out[i].kind = "NetworkError")
    /\ (hist.op = "connect" /\ ~hist.ok) => cur = hist.pre
    /\ (hist.op = "connect" /\ hist.ok) => cur = {Len(conns)}

\* a close whose shutdown failed on a held connection, then a second close
C39_Witness ==
    /\ Len(out) = 3
    /\ out[1] = Call("connect", TRUE, "")
    /\ out[2] = Call("close", FALSE, "io")
    /\ out[3] = Call("close", FALSE, "NetworkError")
    /\ cur = {}

====
